---- MODULE Spec2Model ----
(***************************************************************************)
(* StreamingResponseHandler (FORGE streaming response parser).             *)
(*                                                                         *)
(* A JavaScript string is modelled as a sequence of one-character strings, *)
(* so that split, trim and the regular expressions of the handler are      *)
(* computed character by character.                                        *)
(***************************************************************************)
EXTENDS Integers, Sequences, FiniteSets, TLC

(***************************************************************************)
(* Bounds of the model.                                                    *)
(***************************************************************************)
\* lines (complete or partial) fed to one handler between two resets
MaxLines == 4
\* characters of the next line a chunk may carry after a line terminator
MaxHead == 2
\* the same number of lines, when the handler is also driven against its
\* contract (chunks after finalize, repeated finalize)
MaxMisuseLines == 3
\* finalize() calls between two resets, against the contract
MaxFinal == 2
\* processChunk calls made after a finalize() (the documented misuse)
MaxAfter == 1
\* characters per chunk when the example response is streamed
MaxExampleChunk == 3
\* content or blank lines after the path line of the block fed line by line
MaxBlockLines == 4
\* lines fed between two resets when listeners are attached and removed
MaxResetLines == 3
\* lines of the text handed to extractFilesFromMarkdown
MaxMdLines == 6
\* the largest maxRetries a client is constructed with
MaxRetriesBound == 3
\* the aiInteractionsLimit of the user the concurrent calls are made for
QuotaLimit == 2
\* the calls in flight for that user at the same time
MaxCallers == 3

\* the chunks one streaming call may hand to its consumer
MaxYielded == 3

(***************************************************************************)
(* Characters and string primitives.                                       *)
(***************************************************************************)
NL == "\n"
\* the backtick character (a string literal cannot hold it)
BT == "BACKTICK"

Letters == {"a","b","c","d","e","f","g","h","i","j","k","l","m","n","o","p","q","r","s","t","u","v","w","x","y","z"}
Capitals == {"A","B","C","D","E","F","G","H","I","J","K","L","M","N","O","P","Q","R","S","T","U","V","W","X","Y","Z"}
Digits == {"0","1","2","3","4","5","6","7","8","9"}

\* \s of the regular expressions and the characters String.prototype.trim removes
IsSpace(c) == c \in {" ", "\t", "\n", "\r", "\f"}

\* \w of the regular expressions
IsWord(c) == c \in Letters \cup Capitals \cup Digits \cup {"_"}

LowerSeq == <<"a","b","c","d","e","f","g","h","i","j","k","l","m","n","o","p","q","r","s","t","u","v","w","x","y","z">>
UpperSeq == <<"A","B","C","D","E","F","G","H","I","J","K","L","M","N","O","P","Q","R","S","T","U","V","W","X","Y","Z">>

ToLowerChar(c) ==
  IF \E i \in 1..26 : UpperSeq[i] = c THEN LowerSeq[CHOOSE i \in 1..26 : UpperSeq[i] = c] ELSE c

\* String.prototype.toLowerCase
ToLower(s) == [i \in 1..Len(s) |-> ToLowerChar(s[i])]

\* F applied to the value of v, which is computed once
With(v, F(_)) == CHOOSE r \in {F(x) : x \in {v}} : TRUE

StartsWith(s, p) == Len(p) <= Len(s) /\ SubSeq(s, 1, Len(p)) = p

EndsWith(s, p) == Len(p) <= Len(s) /\ SubSeq(s, Len(s) - Len(p) + 1, Len(s)) = p

Includes(s, c) == \E i \in 1..Len(s) : s[i] = c

DropFirst(s, n) == SubSeq(s, n + 1, Len(s))

DropLast(s, n) == SubSeq(s, 1, Len(s) - n)

\* String.prototype.trimStart
TrimStart(str) ==
  With(str, LAMBDA s :
    IF \A i \in 1..Len(s) : IsSpace(s[i]) THEN <<>>
    ELSE LET f == CHOOSE i \in 1..Len(s) : ~IsSpace(s[i]) /\ \A j \in 1..(i-1) : IsSpace(s[j])
         IN  SubSeq(s, f, Len(s)))

\* String.prototype.trim
Trim(str) ==
  With(str, LAMBDA s :
    IF \A i \in 1..Len(s) : IsSpace(s[i]) THEN <<>>
    ELSE LET f == CHOOSE i \in 1..Len(s) : ~IsSpace(s[i]) /\ \A j \in 1..(i-1) : IsSpace(s[j])
             l == CHOOSE i \in 1..Len(s) : ~IsSpace(s[i]) /\ \A j \in (i+1)..Len(s) : IsSpace(s[j])
         IN  SubSeq(s, f, l))

RECURSIVE Split(_)
\* String.prototype.split('\n'): the pieces between line terminators
Split(str) ==
  With(str, LAMBDA s :
    IF ~Includes(s, NL) THEN <<s>>
    ELSE With(CHOOSE i \in 1..Len(s) : s[i] = NL /\ \A j \in 1..(i-1) : s[j] # NL,
              LAMBDA k : <<SubSeq(s, 1, k - 1)>> \o Split(DropFirst(s, k))))

(***************************************************************************)
(* String constants of the handler.                                        *)
(***************************************************************************)
Fence == <<BT, BT, BT>>
TextLang == <<"t","e","x","t">>
SrcRoot == <<"s","r","c","/">>
PublicRoot == <<"p","u","b","l","i","c","/">>
PrismaRoot == <<"p","r","i","s","m","a","/">>
TestsRoot == <<"t","e","s","t","s","/">>
FileLabel == <<"f","i","l","e",":">>
PathLabel == <<"p","a","t","h",":">>
TypeScript == <<"t","y","p","e","s","c","r","i","p","t">>
JavaScript == <<"j","a","v","a","s","c","r","i","p","t">>
Markdown == <<"m","a","r","k","d","o","w","n">>

(***************************************************************************)
(* Path and language helpers of the handler.                               *)
(***************************************************************************)
\* the comment marker filePathPattern starts with: //, # or /*  (0: none)
MarkerLen(t) ==
  IF StartsWith(t, <<"/","/">>) \/ StartsWith(t, <<"/","*">>) THEN 2
  ELSE IF StartsWith(t, <<"#">>) THEN 1
  ELSE 0

\* filePathPattern = /^(?:\/\/|#|\/\*)\s*(?:File:|Path:)?\s*(.+?)(?:\*\/)?$/i
\* matches when a marker is followed by at least one character
PatternMatches(t) ==
  MarkerLen(t) > 0 /\ Len(t) > MarkerLen(t) /\ ~Includes(t, NL) /\ ~Includes(t, "\r")

\* capture group 1 of filePathPattern on a string it matches: the greedy
\* \s* and label are skipped (the label is given back when nothing would be
\* left for the group), the lazy group stops before a closing */ at the end
PatternGroup(t) ==
  With(TrimStart(DropFirst(t, MarkerLen(t))), LAMBDA q :
    LET lab == StartsWith(ToLower(q), FileLabel) \/ StartsWith(ToLower(q), PathLabel)
        afterLab == TrimStart(DropFirst(q, 5))
    IN  With(IF lab /\ afterLab # <<>> THEN afterLab ELSE q, LAMBDA r :
          IF Len(r) >= 3 /\ EndsWith(r, <<"*","/">>) THEN DropLast(r, 2) ELSE r))

HasExtension(t) ==
  \/ EndsWith(t, <<".","t","s">>)
  \/ EndsWith(t, <<".","t","s","x">>)
  \/ EndsWith(t, <<".","j","s">>)
  \/ EndsWith(t, <<".","j","s","x">>)
  \/ EndsWith(t, <<".","c","s","s">>)
  \/ EndsWith(t, <<".","j","s","o","n">>)
  \/ EndsWith(t, <<".","m","d">>)

looksLikeFilePath(line) ==
  With(Trim(line), LAMBDA trimmed :
    PatternMatches(trimmed) \/ Includes(trimmed, "/") \/ HasExtension(trimmed))

\* /\.\w+$/ : a dot followed by word characters up to the end
DotWordEnd(t) ==
  \E i \in 1..(Len(t) - 1) : t[i] = "." /\ \A j \in (i+1)..Len(t) : IsWord(t[j])

\* the fallback commentPatterns of extractFilePath: //x, #x and /*x*/
CommentPotential(t) ==
  IF (StartsWith(t, <<"/","/">>) /\ Len(t) > 2) THEN <<Trim(DropFirst(t, 2))>>
  ELSE IF (StartsWith(t, <<"#">>) /\ Len(t) > 1) THEN <<Trim(DropFirst(t, 1))>>
  ELSE IF (StartsWith(t, <<"/","*">>) /\ EndsWith(t, <<"*","/">>) /\ Len(t) > 4)
       THEN <<Trim(SubSeq(t, 3, Len(t) - 2))>>
  ELSE <<>>

\* extractFilePath: <<>> is null, <<p>> is the path p
extractFilePath(line) ==
  With(Trim(line), LAMBDA trimmed :
    IF PatternMatches(trimmed) THEN <<Trim(PatternGroup(trimmed))>>
    ELSE IF Includes(trimmed, "/") /\ ~Includes(trimmed, " ") THEN <<trimmed>>
    ELSE With(CommentPotential(trimmed), LAMBDA pot :
           IF pot # <<>> /\ ~Includes(trimmed, NL) /\ (Includes(pot[1], "/") \/ DotWordEnd(pot[1]))
           THEN pot
           ELSE <<>>))

IsQuote(c) == c \in {"\"", "'"}

\* path.trim().replace(/^["']|["']$/g, '')
Unquoted(path) ==
  With(Trim(path), LAMBDA t :
    With(IF Len(t) > 0 /\ IsQuote(t[1]) THEN Tail(t) ELSE t, LAMBDA a :
      IF Len(a) > 0 /\ IsQuote(a[Len(a)]) THEN DropLast(a, 1) ELSE a))

\* normalizeFilePath that puts every path under the source root
normalizeFilePathAlways(path) == SrcRoot \o Unquoted(path)

normalizeFilePath(path) ==
  With(Unquoted(path), LAMBDA normalized :
      IF ~StartsWith(normalized, SrcRoot) /\ ~StartsWith(normalized, PublicRoot)
         /\ ~StartsWith(normalized, PrismaRoot) /\ ~StartsWith(normalized, TestsRoot)
         /\ ~StartsWith(normalized, <<".">>)
      THEN SrcRoot \o normalized
      ELSE normalized)

\* what an object literal inherits from Object.prototype under an all-lowercase key
InheritedKeys ==
  {<<"c","o","n","s","t","r","u","c","t","o","r">>, <<"_","_","p","r","o","t","o","_","_">>}

\* the value of such an inherited member: truthy, and not a string
InheritedMember == <<"[inherited]">>

\* langMap[l]: the own keys of langMap and their values, <<>> when undefined
langMap(l) ==
  CASE l \in InheritedKeys -> <<InheritedMember>>
    [] l \in {TypeScript, <<"t","s">>, <<"t","s","x">>} -> <<TypeScript>>
    [] l \in {JavaScript, <<"j","s">>, <<"j","s","x">>} -> <<JavaScript>>
    [] l \in {Markdown, <<"m","d">>} -> <<Markdown>>
    [] l \in {<<"j","s","o","n">>, <<"c","s","s">>, <<"s","c","s","s">>, <<"h","t","m","l">>,
              <<"p","r","i","s","m","a">>, <<"s","q","l">>} -> <<l>>
    [] OTHER -> <<>>

normalizeLanguage(lang) ==
  With(langMap(ToLower(lang)), LAMBDA v : IF v # <<>> THEN v[1] ELSE lang)

(***************************************************************************)
(* The handler.  A handler state h is a record of the fields of            *)
(* StreamingResponseHandler, of the events emitted so far (events) and of  *)
(* the positions in that event sequence at which a draft was discarded     *)
(* without a file-complete event (dropped).  null is <<>>, and a non-null  *)
(* currentFile is the one-element sequence holding the draft.  listeners   *)
(* is the set of event types that have a listener attached, and heard[i]   *)
(* tells whether the i-th emitted event was delivered to a listener.       *)
(***************************************************************************)
NewHandler ==
  [buffer |-> <<>>, currentFile |-> <<>>, files |-> <<>>, explanation |-> <<>>,
   inCodeBlock |-> FALSE, codeBlockLanguage |-> <<>>, codeBlockBuffer |-> <<>>,
   events |-> <<>>, dropped |-> <<>>, listeners |-> {}, heard |-> <<>>]

\* EventEmitter.emit: the event goes to the listener attached to its type
emit(h, type, data) ==
  [h EXCEPT !.events = Append(@, [type |-> type, data |-> data]),
            !.heard = Append(@, type \in h.listeners)]

\* EventEmitter.on(type, listener)
on(h, type) == [h EXCEPT !.listeners = @ \cup {type}]

\* finalizeCurrentFile whose early return forgets to clear the draft
finalizeCurrentFileKeep(handler) ==
  With(handler, LAMBDA h :
    IF h.currentFile = <<>> \/ h.currentFile[1].path = <<>> \/ h.currentFile[1].content = <<>>
    THEN h
    ELSE LET file == [path |-> h.currentFile[1].path,
                      content |-> h.currentFile[1].content,
                      language |-> h.currentFile[1].language]
         IN  [emit([h EXCEPT !.files = Append(@, file)], "file-complete", file)
                EXCEPT !.currentFile = <<>>])

\* finalizeCurrentFile that also keeps a draft without content
finalizeCurrentFileAny(handler) ==
  With(handler, LAMBDA h :
    IF h.currentFile = <<>> \/ h.currentFile[1].path = <<>>
    THEN [h EXCEPT !.currentFile = <<>>]
    ELSE LET file == [path |-> h.currentFile[1].path,
                      content |-> h.currentFile[1].content,
                      language |-> h.currentFile[1].language]
         IN  [emit([h EXCEPT !.files = Append(@, file)], "file-complete", file)
                EXCEPT !.currentFile = <<>>])

finalizeCurrentFile(handler) ==
  With(handler, LAMBDA h :
    IF h.currentFile = <<>> \/ h.currentFile[1].path = <<>> \/ h.currentFile[1].content = <<>>
    THEN [h EXCEPT !.currentFile = <<>>,
                   !.dropped = IF h.currentFile # <<>> THEN Append(@, Len(h.events)) ELSE @]
    ELSE LET file == [path |-> h.currentFile[1].path,
                      content |-> h.currentFile[1].content,
                      language |-> IF h.currentFile[1].language # <<>>
                                   THEN h.currentFile[1].language ELSE TextLang]
         IN  [emit([h EXCEPT !.files = Append(@, file)], "file-complete", file)
                EXCEPT !.currentFile = <<>>])

\* startNewFile that opens the draft without announcing it
startNewFileSilent(handler, path, language) ==
  [handler EXCEPT !.currentFile = <<[path |-> normalizeFilePath(path), content |-> <<>>,
                                     language |-> normalizeLanguage(language)]>>]

startNewFile(handler, path, language) ==
  With(handler, LAMBDA h :
    With(IF h.currentFile # <<>> /\ h.currentFile[1].path # <<>>
         THEN finalizeCurrentFile(h)
         ELSE [h EXCEPT !.dropped = IF h.currentFile # <<>> THEN Append(@, Len(h.events)) ELSE @],
         LAMBDA prev :
      With([path |-> normalizeFilePath(path), content |-> <<>>,
            language |-> normalizeLanguage(language)],
           LAMBDA draft :
        emit([prev EXCEPT !.currentFile = <<draft>>], "file-start",
             [path |-> draft.path, language |-> draft.language]))))

\* finalizeCodeBlock that keeps a block without a path as a generic file
finalizeCodeBlockGeneric(handler) ==
  With(handler, LAMBDA h :
    LET draft == IF h.currentFile = <<>>
                 THEN <<[path |-> <<"u","n","k","n","o","w","n">>, content |-> <<>>,
                         language |-> h.codeBlockLanguage]>>
                 ELSE h.currentFile
    IN  [finalizeCurrentFile(
           [h EXCEPT !.currentFile = <<[draft[1] EXCEPT !.content = Trim(h.codeBlockBuffer)]>>])
           EXCEPT !.codeBlockBuffer = <<>>])

\* finalizeCodeBlock that stores the block buffer as it is
finalizeCodeBlockRaw(handler) ==
  With(handler, LAMBDA h :
    IF h.currentFile = <<>>
    THEN [h EXCEPT !.codeBlockBuffer = <<>>]
    ELSE [finalizeCurrentFile([h EXCEPT !.currentFile[1].content = h.codeBlockBuffer])
            EXCEPT !.codeBlockBuffer = <<>>])

\* the text without the blank lines before its first and after its last
\* line that is not blank
WithoutBlankLines(text) ==
  With(text, LAMBDA t :
    IF \A i \in 1..Len(t) : IsSpace(t[i]) THEN <<>>
    ELSE LET f == CHOOSE i \in 1..Len(t) : ~IsSpace(t[i]) /\ \A j \in 1..(i-1) : IsSpace(t[j])
             l == CHOOSE i \in 1..Len(t) : ~IsSpace(t[i]) /\ \A j \in (i+1)..Len(t) : IsSpace(t[j])
             a == IF \E i \in 1..(f-1) : t[i] = NL
                  THEN 1 + CHOOSE i \in 1..(f-1) : t[i] = NL /\ \A j \in (i+1)..(f-1) : t[j] # NL
                  ELSE 1
             b == IF \E i \in (l+1)..Len(t) : t[i] = NL
                  THEN (CHOOSE i \in (l+1)..Len(t) : t[i] = NL /\ \A j \in (l+1)..(i-1) : t[j] # NL) - 1
                  ELSE Len(t)
         IN  SubSeq(t, a, b))

\* finalizeCodeBlock that removes the blank lines around the content only
finalizeCodeBlockLines(handler) ==
  With(handler, LAMBDA h :
    IF h.currentFile = <<>>
    THEN [h EXCEPT !.codeBlockBuffer = <<>>]
    ELSE [finalizeCurrentFile([h EXCEPT !.currentFile[1].content = WithoutBlankLines(h.codeBlockBuffer)])
            EXCEPT !.codeBlockBuffer = <<>>])

finalizeCodeBlock(handler) ==
  With(handler, LAMBDA h :
    IF h.currentFile = <<>>
    THEN [h EXCEPT !.codeBlockBuffer = <<>>]
    ELSE [finalizeCurrentFile([h EXCEPT !.currentFile[1].content = Trim(h.codeBlockBuffer)])
            EXCEPT !.codeBlockBuffer = <<>>])

\* /^```(\w+)?/ : the line starts with the fence marker
codeBlockStart(line) == StartsWith(line, Fence)

\* capture group 1 of that expression: the word characters that follow the
\* marker, <<>> when there is none (undefined)
codeBlockTag(line) ==
  With(DropFirst(line, 3), LAMBDA rest :
    LET n == IF \A i \in 1..Len(rest) : IsWord(rest[i]) THEN Len(rest)
             ELSE (CHOOSE i \in 1..Len(rest) : ~IsWord(rest[i]) /\ \A j \in 1..(i-1) : IsWord(rest[j])) - 1
    IN  SubSeq(rest, 1, n))

\* the inside-a-code-block branch that streams the line without its
\* line terminator
processBlockLineBare(h, line) ==
  With(IF h.codeBlockBuffer = <<>> /\ looksLikeFilePath(line) THEN extractFilePath(line) ELSE <<>>,
       LAMBDA filePath :
    IF filePath # <<>> /\ filePath[1] # <<>>
    THEN startNewFile(h, filePath[1], h.codeBlockLanguage)
    ELSE With([h EXCEPT !.codeBlockBuffer = @ \o line \o <<NL>>], LAMBDA added :
           IF added.currentFile # <<>>
           THEN emit(added, "content-chunk",
                     [path |-> added.currentFile[1].path, chunk |-> line])
           ELSE added))

\* the inside-a-code-block branch of processLine
processBlockLine(h, line) ==
  With(IF h.codeBlockBuffer = <<>> /\ looksLikeFilePath(line) THEN extractFilePath(line) ELSE <<>>,
       LAMBDA filePath :
    IF filePath # <<>> /\ filePath[1] # <<>>
    THEN startNewFile(h, filePath[1], h.codeBlockLanguage)
    ELSE With([h EXCEPT !.codeBlockBuffer = @ \o line \o <<NL>>], LAMBDA added :
           IF added.currentFile # <<>>
           THEN emit(added, "content-chunk",
                     [path |-> added.currentFile[1].path, chunk |-> line \o <<NL>>])
           ELSE added))

\* processLine that records every non-empty prose line, blank or not
processLineAnyText(handler, text) ==
  With(handler, LAMBDA h : With(text, LAMBDA line :
    IF codeBlockStart(line) /\ ~h.inCodeBlock
    THEN [h EXCEPT !.inCodeBlock = TRUE,
                   !.codeBlockLanguage = IF codeBlockTag(line) # <<>> THEN codeBlockTag(line) ELSE TextLang,
                   !.codeBlockBuffer = <<>>]
    ELSE IF line = Fence /\ h.inCodeBlock
    THEN finalizeCodeBlock([h EXCEPT !.inCodeBlock = FALSE])
    ELSE IF h.inCodeBlock
    THEN processBlockLine(h, line)
    ELSE IF line # <<>>
    THEN emit([h EXCEPT !.explanation = @ \o line \o <<NL>>], "explanation", [text |-> line])
    ELSE h))

processLine(handler, text) ==
  With(handler, LAMBDA h : With(text, LAMBDA line :
    IF codeBlockStart(line) /\ ~h.inCodeBlock
    THEN [h EXCEPT !.inCodeBlock = TRUE,
                   !.codeBlockLanguage = IF codeBlockTag(line) # <<>> THEN codeBlockTag(line) ELSE TextLang,
                   !.codeBlockBuffer = <<>>]
    ELSE IF line = Fence /\ h.inCodeBlock
    THEN finalizeCodeBlock([h EXCEPT !.inCodeBlock = FALSE])
    ELSE IF h.inCodeBlock
    THEN processBlockLine(h, line)
    ELSE IF Trim(line) # <<>>
    THEN emit([h EXCEPT !.explanation = @ \o line \o <<NL>>], "explanation", [text |-> line])
    ELSE h))

RECURSIVE processLines(_, _)
\* the loop of processChunk over the completed lines
processLines(handler, lines) ==
  With(handler, LAMBDA h :
    IF lines = <<>> THEN h ELSE processLines(processLine(h, Head(lines)), Tail(lines)))

\* processChunk splitting the chunk alone: the carried-over partial line is lost
processChunkNoCarry(handler, chunk) ==
  With(Split(chunk), LAMBDA lines :
    processLines([handler EXCEPT !.buffer = lines[Len(lines)]], DropLast(lines, 1)))

\* processChunk that hands unterminated prose on at once instead of
\* keeping it for the next call
processChunkFlushProse(handler, chunk) ==
  With(Split(handler.buffer \o chunk), LAMBDA lines :
    With(processLines([handler EXCEPT !.buffer = lines[Len(lines)]], DropLast(lines, 1)), LAMBDA h :
      IF ~h.inCodeBlock /\ Trim(h.buffer) # <<>>
      THEN processLine([h EXCEPT !.buffer = <<>>], h.buffer)
      ELSE h))

\* processChunk that also processes the line the chunk leaves unterminated
processChunkEager(handler, chunk) ==
  processLines([handler EXCEPT !.buffer = <<>>], Split(handler.buffer \o chunk))

processChunk(handler, chunk) ==
  With(Split(handler.buffer \o chunk), LAMBDA lines :
    processLines([handler EXCEPT !.buffer = lines[Len(lines)]], DropLast(lines, 1)))

getFiles(h) == h.files

\* getExplanation that returns the raw buffer
getExplanationRaw(h) == h.explanation

getExplanation(h) == Trim(h.explanation)

\* the three flushing steps of finalize, before done is emitted
flushed(handler) ==
  With(handler, LAMBDA h :
    With(IF Trim(h.buffer) # <<>> THEN processLine(h, h.buffer) ELSE h, LAMBDA a :
      With(IF a.inCodeBlock /\ a.codeBlockBuffer # <<>> THEN finalizeCodeBlock(a) ELSE a, LAMBDA b :
        IF b.currentFile # <<>> THEN finalizeCurrentFile(b) ELSE b)))

\* finalize that emits done before it flushes the open block and draft
finalizeDoneFirst(handler) ==
  With(handler, LAMBDA h :
    flushed(emit(h, "done", [files |-> h.files, explanation |-> Trim(h.explanation)])))

\* finalize that hands its results over with done and then empties them
finalizeAndClear(handler) ==
  With(flushed(handler), LAMBDA c :
    [emit(c, "done", [files |-> c.files, explanation |-> Trim(c.explanation)])
       EXCEPT !.files = <<>>, !.explanation = <<>>])

finalize(handler) ==
  With(flushed(handler), LAMBDA c :
    emit(c, "done", [files |-> c.files, explanation |-> Trim(c.explanation)]))

\* reset that leaves the listeners attached
resetKeepListeners(h) == [NewHandler EXCEPT !.listeners = h.listeners]

\* reset(): every field back to its initial value and every listener
\* removed; the event record starts anew
reset(h) == NewHandler

parseCompleteResponse(text) ==
  With(finalize(processChunk(NewHandler, text)), LAMBDA handler :
    [files |-> getFiles(handler), explanation |-> getExplanation(handler)])

(***************************************************************************)
(* extractFilesFromMarkdown: the fence-matching scan over a whole text.    *)
(***************************************************************************)
DigitSeq == <<"0","1","2","3","4","5","6","7","8","9">>

RECURSIVE NumberString(_)
\* the decimal digits of a natural number, as in a template literal
NumberString(n) ==
  IF n < 10 THEN <<DigitSeq[n + 1]>> ELSE NumberString(n \div 10) \o <<DigitSeq[(n % 10) + 1]>>

RECURSIVE Join(_)
\* Array.prototype.join('\n')
Join(ls) ==
  IF ls = <<>> THEN <<>>
  ELSE IF Len(ls) = 1 THEN ls[1]
  ELSE ls[1] \o <<NL>> \o Join(Tail(ls))

UnknownPrefix == <<"u","n","k","n","o","w","n","-">>

\* the fence marker stands at position i of md
FenceAt(md, i) == i >= 1 /\ i + 2 <= Len(md) /\ md[i] = BT /\ md[i+1] = BT /\ md[i+2] = BT

\* the position after the word characters that start at position j
WordEnd(md, j) ==
  IF \A k \in j..Len(md) : IsWord(md[k]) THEN Len(md) + 1
  ELSE CHOOSE k \in j..Len(md) : ~IsWord(md[k]) /\ \A m \in j..(k-1) : IsWord(md[m])

\* codeBlockRegex = /```(\w+)?\n([\s\S]*?)```/g matches at position i: the
\* marker, the word characters after it, a line terminator, and a later marker
MatchAt(md, i) ==
  /\ FenceAt(md, i)
  /\ WordEnd(md, i + 3) <= Len(md)
  /\ md[WordEnd(md, i + 3)] = NL
  /\ \E p \in (WordEnd(md, i + 3) + 1)..Len(md) : FenceAt(md, p)

\* the artifact pushed for a match with capture groups tag and content when
\* count artifacts were pushed before
blockFile(tag, content, count) ==
  With(IF tag # <<>> THEN tag ELSE TextLang, LAMBDA language :
    With(Split(content), LAMBDA lines :
      With(extractFilePath(Trim(lines[1])), LAMBDA filePath :
        IF filePath # <<>> /\ filePath[1] # <<>>
        THEN [path |-> normalizeFilePath(filePath[1]),
              content |-> Trim(Join(Tail(lines))),
              language |-> normalizeLanguage(language)]
        ELSE [path |-> UnknownPrefix \o NumberString(count) \o <<".">> \o language,
              content |-> Trim(content),
              language |-> normalizeLanguage(language)])))

RECURSIVE scanBlocks(_, _, _)
\* the while loop over codeBlockRegex.exec, from position lastIndex on
scanBlocks(markdown, lastIndex, found) ==
  With(markdown, LAMBDA md : With(found, LAMBDA fs :
    IF \A i \in lastIndex..Len(md) : ~MatchAt(md, i) THEN fs
    ELSE With(CHOOSE i \in lastIndex..Len(md) :
                MatchAt(md, i) /\ \A j \in lastIndex..(i-1) : ~MatchAt(md, j), LAMBDA i :
           With(WordEnd(md, i + 3), LAMBDA n :
             With(CHOOSE p \in (n+1)..Len(md) :
                    FenceAt(md, p) /\ \A q \in (n+1)..(p-1) : ~FenceAt(md, q), LAMBDA p :
               scanBlocks(md, p + 3,
                          Append(fs, blockFile(SubSeq(md, i + 3, n - 1),
                                               SubSeq(md, n + 1, p - 1), Len(fs)))))))))

extractFilesFromMarkdown(markdown) == scanBlocks(markdown, 1, <<>>)

(***************************************************************************)
(* ClaudeClient: the retry loop shared by generateCode, chat, explain and  *)
(* refactor.  An error is a record of its class, its code and its status   *)
(* (0: no status property).                                                *)
(***************************************************************************)
\* the default of the constructor parameter maxRetries
DefaultMaxRetries == 3

AIErrorClasses ==
  {"AIError", "RateLimitError", "ContextTooLargeError", "AuthenticationError", "NetworkError"}

NetworkCodes == {"ECONNRESET", "ETIMEDOUT", "ENOTFOUND"}

isRetryableError(error) ==
  \/ error.class \in {"RateLimitError", "NetworkError"}
  \/ error.code \in NetworkCodes
  \/ error.status = 429 \/ error.status = 529
  \/ error.status >= 500

\* handleError: the class of the error the call throws
handleError(error) ==
  IF error.class \in AIErrorClasses THEN error.class
  ELSE IF error.status = 401 THEN "AuthenticationError"
  ELSE IF error.status = 429 THEN "RateLimitError"
  ELSE IF error.status = 400 /\ error.long THEN "ContextTooLargeError"
  ELSE IF error.code \in NetworkCodes THEN "NetworkError"
  ELSE "AIError"

\* the code property of the error handleError returns
codeOf(error) ==
  CASE error.class \in AIErrorClasses -> error.code
    [] handleError(error) = "AuthenticationError" -> "AUTHENTICATION_ERROR"
    [] handleError(error) = "RateLimitError" -> "RATE_LIMIT"
    [] handleError(error) = "ContextTooLargeError" -> "CONTEXT_TOO_LARGE"
    [] handleError(error) = "NetworkError" -> "NETWORK_ERROR"
    [] OTHER -> "UNKNOWN_ERROR"

\* the loop condition that allows one request more than allowed
withinRetriesAndOne(n, max) == n <= max + 1

\* retries <= this.maxRetries
withinRetries(n, max) == n <= max

(***************************************************************************)
(* CostTracker: the usage counter of one user.                             *)
(***************************************************************************)
Callers == 1..MaxCallers

\* getCurrentUsage within a billing period (now < resetDate: no reset)
getCurrentUsage(used, limit) ==
  [used |-> used, limit |-> limit,
   remaining |-> IF limit - used > 0 THEN limit - used ELSE 0]

\* a quota test that still lets a call through when nothing remains
hasRemainingQuotaAtLimit(used, limit) == getCurrentUsage(used, limit).remaining >= 0

\* usage.remaining > 0
hasRemainingQuota(used, limit) == getCurrentUsage(used, limit).remaining > 0

\* aiInteractionsUsed: { increment: 1 }
incrementUsage(used) == used + 1

VARIABLES buffer, currentFile, files, explanation, inCodeBlock, codeBlockLanguage,
          codeBlockBuffer, events, dropped, listeners, heard, fed, nFinal, nAfter,
          stale, resetAt, markdown, extracted,
          clientPc, maxRetries, retries, attempts, thrown, method,
          hasQuota, thrownCode, tracked, counted,
          aiInteractionsUsed, callPc, yielded

\* fed: the concatenation of the chunks passed to processChunk since the
\* construction or the last reset; nFinal: the finalize() calls since then;
\* nAfter: the processChunk calls made after a finalize(); stale: the event
\* types whose listener a reset removed and that got no new listener since;
\* resetAt: the situations in which reset() was called so far
\* markdown: a whole response text; extracted: <<>> before, and the
\* one-element sequence holding the result after, extractFilesFromMarkdown
\* was applied to it
vars == <<buffer, currentFile, files, explanation, inCodeBlock, codeBlockLanguage,
          codeBlockBuffer, events, dropped, listeners, heard, fed, nFinal, nAfter,
          stale, resetAt, markdown, extracted,
          clientPc, maxRetries, retries, attempts, thrown, method,
          hasQuota, thrownCode, tracked, counted,
          aiInteractionsUsed, callPc, yielded>>

\* the handler and the record of its run
parserVars == <<buffer, currentFile, files, explanation, inCodeBlock, codeBlockLanguage,
                codeBlockBuffer, events, dropped, listeners, heard, fed, nFinal, nAfter,
                stale, resetAt>>

\* the text handed to extractFilesFromMarkdown and its result
mdVars == <<markdown, extracted>>

\* one ClaudeClient and the call it is serving: clientPc is the position of
\* the call, attempts the outcomes of the requests it made so far, thrown
\* the class of the error it ended with and thrownCode its code; hasQuota
\* is what the quota check of the call gave ("threw": the lookup failed),
\* tracked the interaction records the call wrote and counted the
\* increments of the usage counter it made
clientVars == <<clientPc, maxRetries, retries, attempts, thrown, method,
                hasQuota, thrownCode, tracked, counted>>

\* the user row's counter of the current billing period, and the position
\* of each of the calls made for that user
quotaVars == <<aiInteractionsUsed, callPc>>

\* the chunks the generator of streamGeneration handed to its consumer
streamVars == <<yielded>>

\* what a call on the handler leaves alone
aside == <<mdVars, clientVars, quotaVars, streamVars>>

Handler ==
  [buffer |-> buffer, currentFile |-> currentFile, files |-> files,
   explanation |-> explanation, inCodeBlock |-> inCodeBlock,
   codeBlockLanguage |-> codeBlockLanguage, codeBlockBuffer |-> codeBlockBuffer,
   events |-> events, dropped |-> dropped, listeners |-> listeners, heard |-> heard]

\* the handler is left in state s
Becomes(s) ==
  \E h \in {s} :
  /\ buffer' = h.buffer
  /\ currentFile' = h.currentFile
  /\ files' = h.files
  /\ explanation' = h.explanation
  /\ inCodeBlock' = h.inCodeBlock
  /\ codeBlockLanguage' = h.codeBlockLanguage
  /\ codeBlockBuffer' = h.codeBlockBuffer
  /\ events' = h.events
  /\ dropped' = h.dropped
  /\ listeners' = h.listeners
  /\ heard' = h.heard
  /\ UNCHANGED aside

\* the lines of the responses fed to the handler
LineSet ==
  { Fence,
    Fence \o <<"t","s">>,
    <<"/","/","a">>,
    <<"x">>,
    <<>>,
    <<" ">> }

IsPrefix(p, s) == StartsWith(s, p)

\* the lines the partial line b can still become
Continuations(b) == {l \in LineSet : IsPrefix(b, l)}

\* chunks that end inside the current line
Inside(b) ==
  UNION {{SubSeq(l, Len(b) + 1, k) : k \in (Len(b) + 1)..Len(l)} : l \in Continuations(b)}

\* chunks that end the current line
Completing(b) == {DropFirst(l, Len(b)) \o <<NL>> : l \in Continuations(b)}

\* the first characters of a line
Heads == UNION {{SubSeq(l, 1, k) : k \in 1..(IF Len(l) < MaxHead THEN Len(l) ELSE MaxHead)} : l \in LineSet}

\* the chunks the caller may pass when the carried-over partial line is b: a
\* piece of the current line, its end, its end and the start of the next
\* line, or its end and a whole further line
Chunks(b) ==
  Inside(b) \cup Completing(b)
    \cup {c \o d : c \in Completing(b), d \in Heads}
    \cup {c \o l \o <<NL>> : c \in Completing(b), l \in LineSet}

\* the number of lines, complete or partial, of a text
CountLines(text) ==
  With(text, LAMBDA t :
    Cardinality({i \in 1..Len(t) : t[i] = NL})
      + (IF t # <<>> /\ t[Len(t)] # NL THEN 1 ELSE 0))

Init ==
  /\ buffer = NewHandler.buffer
  /\ currentFile = NewHandler.currentFile
  /\ files = NewHandler.files
  /\ explanation = NewHandler.explanation
  /\ inCodeBlock = NewHandler.inCodeBlock
  /\ codeBlockLanguage = NewHandler.codeBlockLanguage
  /\ codeBlockBuffer = NewHandler.codeBlockBuffer
  /\ events = NewHandler.events
  /\ dropped = NewHandler.dropped
  /\ listeners = NewHandler.listeners
  /\ heard = NewHandler.heard
  /\ fed = <<>>
  /\ nFinal = 0
  /\ nAfter = 0
  /\ stale = {}
  /\ resetAt = {}
  /\ markdown = <<>>
  /\ extracted = <<>>
  /\ clientPc = "idle"
  /\ maxRetries = DefaultMaxRetries
  /\ retries = 0
  /\ attempts = <<>>
  /\ thrown = "none"
  /\ method = "none"
  /\ hasQuota = "unset"
  /\ thrownCode = "none"
  /\ tracked = 0
  /\ counted = 0
  /\ aiInteractionsUsed = 0
  /\ callPc = [c \in Callers |-> "idle"]
  /\ yielded = <<>>

\* a processChunk call that keeps the text within maxLines lines
ChunkStep(maxLines) ==
  \E chunk \in Chunks(buffer) :
    /\ CountLines(fed \o chunk) <= maxLines
    /\ Becomes(processChunk(Handler, chunk))
    /\ fed' = fed \o chunk
    /\ nAfter' = IF nFinal > 0 THEN nAfter + 1 ELSE nAfter
    /\ UNCHANGED <<nFinal, stale, resetAt>>

FinalizeStep ==
  /\ Becomes(finalize(Handler))
  /\ nFinal' = nFinal + 1
  /\ UNCHANGED <<fed, nAfter, stale, resetAt>>

\* the handler driven as documented: chunks, then finalize once
ProcessChunk == nFinal = 0 /\ ChunkStep(MaxLines)

Finalize == nFinal = 0 /\ FinalizeStep

Reset ==
  /\ Becomes(reset(Handler))
  /\ fed' = <<>>
  /\ nFinal' = 0
  /\ nAfter' = 0
  /\ stale' = stale \cup listeners
  /\ UNCHANGED resetAt

Next == ProcessChunk \/ Finalize \/ Reset

Spec == Init /\ [][Next]_vars

\* the handler driven in any order: chunks after finalize, finalize again
AnyChunk == (nFinal > 0 => nAfter < MaxAfter) /\ ChunkStep(MaxMisuseLines)

AnyFinalize == nFinal < MaxFinal /\ FinalizeStep

NextAnyOrder == AnyChunk \/ AnyFinalize \/ Reset

SpecAnyOrder == Init /\ [][NextAnyOrder]_vars

(***************************************************************************)
(* Properties.                                                             *)
(***************************************************************************)
\* a run of processChunk calls closed by exactly one finalize
OneRun == nFinal = 1 /\ nAfter = 0

EventIndex == 1..Len(events)

TypeAt(i) == events[i].type

\* the position of the last file-start event before position i, 0 if none
LastStart(i) ==
  IF \E j \in 1..(i-1) : TypeAt(j) = "file-start"
  THEN CHOOSE j \in 1..(i-1) :
         TypeAt(j) = "file-start" /\ \A k \in (j+1)..(i-1) : TypeAt(k) # "file-start"
  ELSE 0

\* the draft announced at position j is still open just before position i
OpenBetween(j, i) ==
  /\ \A k \in (j+1)..(i-1) : TypeAt(k) # "file-complete"
  /\ \A d \in 1..Len(dropped) : ~(j <= dropped[d] /\ dropped[d] < i)

\* C1: chunk-boundary invariance: however the text was split into chunks,
\* after the chunks and one finalize getFiles() and getExplanation() equal
\* what parseCompleteResponse returns for the whole text
ChunkBoundaryInvariance ==
  OneRun =>
    /\ getFiles(Handler) = parseCompleteResponse(fed).files
    /\ getExplanation(Handler) = parseCompleteResponse(fed).explanation

\* C1 witness: a finished run that produced an artifact and an explanation
\* out of a text that ended in an unterminated line
ChunkBoundaryWitness ==
  OneRun /\ Len(files) = 1 /\ explanation # <<>> /\ buffer # <<>>

\* C2: event ordering per artifact: every content-chunk and every
\* file-complete follows the file-start of its own draft, carries that
\* draft's path, and lies before the draft is completed or discarded
EventOrdering ==
  \A i \in EventIndex :
    /\ TypeAt(i) = "content-chunk" =>
         /\ LastStart(i) > 0
         /\ events[LastStart(i)].data.path = events[i].data.path
         /\ OpenBetween(LastStart(i), i)
    /\ TypeAt(i) = "file-complete" =>
         /\ LastStart(i) > 0
         /\ events[LastStart(i)].data.path = events[i].data.path
         /\ events[LastStart(i)].data.language = events[i].data.language
         /\ OpenBetween(LastStart(i), i)

\* C2 witness: a finished run with a file-start, a content-chunk and a
\* file-complete
EventOrderingWitness ==
  /\ OneRun
  /\ \E i, j, k \in EventIndex :
       /\ i < j /\ j < k
       /\ TypeAt(i) = "file-start" /\ TypeAt(j) = "content-chunk" /\ TypeAt(k) = "file-complete"

\* C3: done is emitted by finalize only, exactly once in a run, as the last
\* event, and carries the artifact list and the trimmed explanation
DoneOnceAndLast ==
  /\ nFinal = 0 => \A i \in EventIndex : TypeAt(i) # "done"
  /\ OneRun =>
       /\ Cardinality({i \in EventIndex : TypeAt(i) = "done"}) = 1
       /\ events[Len(events)] =
            [type |-> "done",
             data |-> [files |-> getFiles(Handler), explanation |-> getExplanation(Handler)]]

\* C3 witness: a finished run whose finalize completed the open draft
DoneWitness ==
  /\ OneRun /\ Len(files) = 1 /\ inCodeBlock
  /\ Len(events) >= 2 /\ TypeAt(Len(events) - 1) = "file-complete"

\* C10: the draft is non-null only inside a code block; a fence-close line
\* and finalize leave it null
DraftOnlyInCodeBlock ==
  /\ currentFile # <<>> => inCodeBlock
  /\ finalize(Handler).currentFile = <<>>
  /\ inCodeBlock =>
       /\ processLine(Handler, Fence).currentFile = <<>>
       /\ ~processLine(Handler, Fence).inCodeBlock

\* C10 witness: a draft is open, with content, inside a code block
DraftWitness == currentFile # <<>> /\ inCodeBlock /\ codeBlockBuffer # <<>>

(***************************************************************************)
(* The text of a run read line by line, for the properties that speak of   *)
(* fences, path lines and prose.                                           *)
(***************************************************************************)
\* the lines handed to processLine so far, in a run that was not misused:
\* the terminated lines and, once finalize ran, the non-blank last line
ProcessedLines ==
  LET pieces == Split(fed)
      last == pieces[Len(pieces)]
  IN  IF nFinal > 0 /\ Trim(last) # <<>> THEN pieces ELSE DropLast(pieces, 1)

\* a run that was not misused: no chunk after finalize, no second finalize
Proper == nAfter = 0 /\ nFinal <= 1

RECURSIVE JoinLines(_)
JoinLines(ls) == IF ls = <<>> THEN <<>> ELSE Head(ls) \o <<NL>> \o JoinLines(Tail(ls))

\* the first line of a fence is taken as path metadata
IsPathLine(l) ==
  looksLikeFilePath(l) /\ extractFilePath(l) # <<>> /\ extractFilePath(l)[1] # <<>>

RECURSIVE ProseLines(_, _)
\* the non-blank lines that lie outside every fence
ProseLines(ls, inside) ==
  IF ls = <<>> THEN <<>>
  ELSE IF ~inside /\ codeBlockStart(Head(ls)) THEN ProseLines(Tail(ls), TRUE)
  ELSE IF inside /\ Head(ls) = Fence THEN ProseLines(Tail(ls), FALSE)
  ELSE IF inside THEN ProseLines(Tail(ls), TRUE)
  ELSE (IF Trim(Head(ls)) # <<>> THEN <<Head(ls)>> ELSE <<>>) \o ProseLines(Tail(ls), FALSE)

RECURSIVE PathBlocks(_, _)
\* the number of fences whose first line is taken as path metadata
PathBlocks(ls, inside) ==
  IF ls = <<>> THEN 0
  ELSE IF ~inside /\ codeBlockStart(Head(ls))
       THEN (IF Len(ls) >= 2 /\ IsPathLine(ls[2]) THEN 1 ELSE 0) + PathBlocks(Tail(ls), TRUE)
  ELSE IF inside /\ Head(ls) = Fence THEN PathBlocks(Tail(ls), FALSE)
  ELSE PathBlocks(Tail(ls), inside)

EventsOfType(t) == SelectSeq(events, LAMBDA e : e.type = t)

FileEvents == SelectSeq(events, LAMBDA e : e.type \in {"file-start", "content-chunk", "file-complete"})

\* the handler is past the first line of a fence that named no path
InNoPathBlock == inCodeBlock /\ currentFile = <<>> /\ codeBlockBuffer # <<>>

\* C6: a fence whose first line names no path yields no artifact and no file
\* event, and no line inside a fence reaches the explanation
NoPathBlockDropped ==
  Proper =>
    /\ explanation = JoinLines(ProseLines(ProcessedLines, FALSE))
    /\ [i \in 1..Len(EventsOfType("explanation")) |-> EventsOfType("explanation")[i].data.text]
         = ProseLines(ProcessedLines, FALSE)
    /\ Len(files) <= PathBlocks(ProcessedLines, FALSE)
    /\ Len(EventsOfType("file-complete")) <= PathBlocks(ProcessedLines, FALSE)
    /\ PathBlocks(ProcessedLines, FALSE) = 0 => FileEvents = <<>>
    /\ InNoPathBlock =>
         /\ \A l \in LineSet :
              /\ processLine(Handler, l).events = events
              /\ processLine(Handler, l).files = files
              /\ processLine(Handler, l).explanation = explanation
              /\ processLine(Handler, l).currentFile = <<>>
         /\ finalize(Handler).files = files
         /\ finalize(Handler).explanation = explanation
         /\ Len(finalize(Handler).events) = Len(events) + 1

\* C6 witness: a finished run in which a closed fence without a path stands
\* between two prose lines
NoPathBlockWitness ==
  /\ OneRun /\ files = <<>> /\ ~inCodeBlock
  /\ Len(ProcessedLines) = 4
  /\ codeBlockStart(ProcessedLines[1]) /\ ~IsPathLine(ProcessedLines[2])
  /\ Trim(ProcessedLines[2]) # <<>> /\ ProcessedLines[3] = Fence
  /\ explanation = ProcessedLines[4] \o <<NL>>

\* the blocks of a text in which every fence is closed, starts with a path
\* line and has non-blank content: ok tells whether the text is of that
\* shape, paths lists the normalized paths of the path lines in order
RECURSIVE WellFormed(_)
WellFormed(ls) ==
  IF ls = <<>> THEN [ok |-> TRUE, paths |-> <<>>]
  ELSE IF ~codeBlockStart(Head(ls)) THEN WellFormed(Tail(ls))
  ELSE LET rest == Tail(ls)
       IN  IF \A i \in 1..Len(rest) : rest[i] # Fence THEN [ok |-> FALSE, paths |-> <<>>]
           ELSE LET c == CHOOSE i \in 1..Len(rest) : rest[i] = Fence /\ \A j \in 1..(i-1) : rest[j] # Fence
                    after == WellFormed(DropFirst(rest, c))
                IN  IF c >= 3 /\ IsPathLine(rest[1]) /\ Trim(JoinLines(SubSeq(rest, 2, c - 1))) # <<>>
                    THEN [ok |-> after.ok,
                          paths |-> <<normalizeFilePath(extractFilePath(rest[1])[1])>> \o after.paths]
                    ELSE [ok |-> FALSE, paths |-> <<>>]

\* C4: fence balance: k closed fences, each with a path line and non-blank
\* content, leave exactly k artifacts after finalize, in fence order, the
\* i-th with the normalized path of the i-th path line
FenceBalance ==
  (OneRun /\ WellFormed(ProcessedLines).ok) =>
    /\ Len(files) = Len(WellFormed(ProcessedLines).paths)
    /\ \A i \in 1..Len(files) : files[i].path = WellFormed(ProcessedLines).paths[i]

\* the text ends inside its only fence, opened at line o, whose first line
\* is a path line followed by non-blank content
UnclosedAt(ls, o) ==
  /\ \A i \in 1..(o-1) : ~codeBlockStart(ls[i])
  /\ codeBlockStart(ls[o])
  /\ \A i \in (o+1)..Len(ls) : ls[i] # Fence
  /\ Len(ls) >= o + 2
  /\ IsPathLine(ls[o+1])
  /\ Trim(JoinLines(SubSeq(ls, o + 2, Len(ls)))) # <<>>

UnclosedArtifact(ls, o) ==
  [path |-> normalizeFilePath(extractFilePath(ls[o+1])[1]),
   content |-> Trim(JoinLines(SubSeq(ls, o + 2, Len(ls)))),
   language |-> normalizeLanguage(IF codeBlockTag(ls[o]) # <<>> THEN codeBlockTag(ls[o]) ELSE TextLang)]

\* C5: unclosed fence recovery: a text that ends inside a fence with a path
\* line yields, at finalize, exactly one artifact for that fence, whose
\* content is everything after the path line, trimmed, and its
\* file-complete comes right before done
UnclosedFenceRecovery ==
  OneRun =>
    \A o \in 1..Len(ProcessedLines) :
      UnclosedAt(ProcessedLines, o) =>
        /\ files = <<UnclosedArtifact(ProcessedLines, o)>>
        /\ Len(events) >= 2
        /\ events[Len(events) - 1] =
             [type |-> "file-complete", data |-> UnclosedArtifact(ProcessedLines, o)]
        /\ TypeAt(Len(events)) = "done"

\* C7: path detection happens on the first line of a fence only: no fence
\* announces more than one file, and once a draft is open every further
\* line of the fence is appended to the block content
PathOnFirstLineOnly ==
  Proper =>
    /\ Len(EventsOfType("file-start")) <= PathBlocks(ProcessedLines, FALSE)
    /\ (inCodeBlock /\ currentFile # <<>>) =>
         \A l \in LineSet \ {Fence} :
           /\ processLine(Handler, l).codeBlockBuffer = codeBlockBuffer \o l \o <<NL>>
           /\ processLine(Handler, l).currentFile = currentFile

\* C9: after finalize, a further processChunk emits no event and changes no
\* field of the handler (the model has no error outcome, the code raises none)
NoEffectAfterFinalize ==
  [][nAfter' = nAfter + 1 =>
       UNCHANGED <<buffer, currentFile, files, explanation, inCodeBlock,
                   codeBlockLanguage, codeBlockBuffer, events>>]_vars

\* the step is a processChunk call or a finalize call (reset empties fed)
CallStep == Len(fed') > Len(fed) \/ nFinal' = nFinal + 1

\* C11: append-only results: across every processChunk call and across
\* finalize, the artifact list before the call is a prefix of the list after
\* it and the explanation before the call is a prefix of the explanation
\* after it
AppendOnly ==
  [][CallStep => IsPrefix(files, files') /\ IsPrefix(explanation, explanation')]_vars

\* C11 witness: a finished run that appended an artifact and prose
AppendOnlyWitness ==
  nFinal = 1 /\ Len(files) = 1 /\ Len(EventsOfType("explanation")) >= 1

\* an artifact with a path and with content
Filled(f) == f.path # <<>> /\ f.content # <<>>

\* a draft is open in a fence whose content so far is empty or blank
BlankDraft == inCodeBlock /\ currentFile # <<>> /\ Trim(codeBlockBuffer) = <<>>

\* C12: every artifact of getFiles(), of a file-complete event and of a done
\* payload has a non-empty path and non-empty content; a draft whose block
\* content is empty or blank is dropped, by the fence-close line as well as
\* by finalize, with no file-complete and nothing appended, although its
\* file-start was emitted
NoEmptyArtifact ==
  /\ \A i \in 1..Len(getFiles(Handler)) : Filled(getFiles(Handler)[i])
  /\ \A i \in EventIndex :
       /\ TypeAt(i) = "file-complete" => Filled(events[i].data)
       /\ TypeAt(i) = "done" =>
            \A k \in 1..Len(events[i].data.files) : Filled(events[i].data.files[k])
  /\ (Proper /\ BlankDraft) =>
       /\ LastStart(Len(events) + 1) > 0
       /\ processLine(Handler, Fence).files = files
       /\ processLine(Handler, Fence).events = events
       /\ processLine(Handler, Fence).currentFile = <<>>
       /\ Trim(buffer) = <<>> =>
            /\ finalize(Handler).files = files
            /\ finalize(Handler).currentFile = <<>>
            /\ finalize(Handler).events =
                 Append(events, [type |-> "done",
                                 data |-> [files |-> files, explanation |-> Trim(explanation)]])

\* C12 witness: a fence with a path line and one blank content line was
\* closed: its file-start was emitted and nothing was appended
NoEmptyArtifactWitness ==
  /\ nFinal = 0 /\ ~inCodeBlock /\ files = <<>>
  /\ Len(ProcessedLines) = 4
  /\ IsPathLine(ProcessedLines[2]) /\ ProcessedLines[3] = <<" ">> /\ ProcessedLines[4] = Fence
  /\ Len(EventsOfType("file-start")) = 1
  /\ Len(dropped) = 1

\* the text holds nothing but blanks and line terminators
WhitespaceOnly(text) == \A i \in 1..Len(text) : IsSpace(text[i])

\* C16: empty or whitespace-only input, in any number of chunks or none,
\* followed by finalize yields no artifact, an empty explanation and no
\* event but the one done event (the handler has no error outcome)
WhitespaceInput ==
  (OneRun /\ WhitespaceOnly(fed)) =>
    /\ getFiles(Handler) = <<>>
    /\ getExplanation(Handler) = <<>>
    /\ events = <<[type |-> "done", data |-> [files |-> <<>>, explanation |-> <<>>]]>>

\* C16 witness: blank lines, one of them holding a blank and the last one
\* unterminated, were fed and finalized
WhitespaceWitness ==
  /\ OneRun /\ WhitespaceOnly(fed)
  /\ CountLines(fed) >= 3
  /\ buffer = <<" ">>
  /\ \E i \in 1..(Len(fed) - 1) : fed[i] = " " /\ fed[i+1] = NL

(***************************************************************************)
(* The example response of the specification, streamed in chunks of up to  *)
(* MaxExampleChunk characters and then finalized.                          *)
(***************************************************************************)
Example ==
  << "H", "e", "r", "e", " ", "i", "s", " ", "t", "h", "e", " ", "p", "l", "a", "n",
    ".", NL, NL, BT, BT, BT, "t", "y", "p", "e", "s", "c", "r", "i", "p", "t",
    NL, "/", "/", " ", "s", "r", "c", "/", "c", "o", "m", "p", "o", "n", "e", "n",
    "t", "s", "/", "B", "u", "t", "t", "o", "n", ".", "t", "s", "x", NL, "e", "x",
    "p", "o", "r", "t", " ", "f", "u", "n", "c", "t", "i", "o", "n", " ", "B", "u",
    "t", "t", "o", "n", "(", ")", " ", "{", " ", "r", "e", "t", "u", "r", "n", " ",
    "n", "u", "l", "l", " ", "}", NL, BT, BT, BT, NL, NL, "D", "o", "n", "e",
    "." >>

ExampleChunk ==
  \E n \in 1..MaxExampleChunk :
    /\ nFinal = 0
    /\ Len(fed) + n <= Len(Example)
    /\ Becomes(processChunk(Handler, SubSeq(Example, Len(fed) + 1, Len(fed) + n)))
    /\ fed' = fed \o SubSeq(Example, Len(fed) + 1, Len(fed) + n)
    /\ UNCHANGED <<nFinal, nAfter, stale, resetAt>>

ExampleFinalize ==
  /\ fed = Example
  /\ nFinal = 0
  /\ Becomes(finalize(Handler))
  /\ nFinal' = 1
  /\ UNCHANGED <<fed, nAfter, stale, resetAt>>

NextExample == ExampleChunk \/ ExampleFinalize

SpecExample == Init /\ [][NextExample]_vars

ExampleArtifact ==
  [path |-> << "s", "r", "c", "/", "c", "o", "m", "p", "o", "n", "e", "n", "t", "s", "/", "B",
           "u", "t", "t", "o", "n", ".", "t", "s", "x" >>,
   content |-> << "e", "x", "p", "o", "r", "t", " ", "f", "u", "n", "c", "t", "i", "o", "n", " ",
              "B", "u", "t", "t", "o", "n", "(", ")", " ", "{", " ", "r", "e", "t", "u", "r",
              "n", " ", "n", "u", "l", "l", " ", "}" >>,
   language |-> TypeScript]

\* C8 as stated: the example yields the explanation with the blank line
\* between the two prose lines kept, and the one Button artifact
ExampleKeepsBlankLine ==
  (nFinal = 1 /\ fed = Example) =>
    /\ getExplanation(Handler) =
         << "H", "e", "r", "e", " ", "i", "s", " ", "t", "h", "e", " ", "p", "l", "a", "n",
           ".", NL, NL, "D", "o", "n", "e", "." >>
    /\ getFiles(Handler) = <<ExampleArtifact>>

\* C8 amended: the example yields the two prose lines separated by a single
\* line terminator (blank lines are not recorded), and the one Button artifact
ExampleScenario ==
  (nFinal = 1 /\ fed = Example) =>
    /\ getExplanation(Handler) =
         << "H", "e", "r", "e", " ", "i", "s", " ", "t", "h", "e", " ", "p", "l", "a", "n",
           ".", NL, "D", "o", "n", "e", "." >>
    /\ getFiles(Handler) = <<ExampleArtifact>>

\* C8 witness: the whole example was streamed and finalized
ExampleWitness == nFinal = 1 /\ fed = Example /\ Len(files) = 1

(***************************************************************************)
(* One fenced block fed line by line: a fence-open line with a language    *)
(* tag, a path line, up to MaxBlockLines content or blank lines, and then  *)
(* the fence-close line or finalize (or both).                             *)
(***************************************************************************)
\* the language tags of the fence-open line (<<>>: no tag)
BlockTags ==
  { <<>>, <<"t","s">>, <<"t","s","x">>, <<"j","s">>, <<"j","s","x">>, <<"m","d">>,
    <<"z","z">>, <<"c","o","n","s","t","r","u","c","t","o","r">> }

\* the path lines of the block
BlockPathLines ==
  { <<"/","/"," ","c","o","m","p","o","n","e","n","t","s","/","F","o","o",".","t","s","x">>,
    <<"/","/"," ","t","e","s","t","s","/","f","o","o",".","t","e","s","t",".","t","s">>,
    <<"#"," ","\"","s","r","c","/","a",".","j","s","\"">>,
    <<"/","*"," ","F","i","l","e",":"," ","'","b",".","t","s","'"," ","*","/">>,
    <<"p","u","b","l","i","c","/","c",".","c","s","s">>,
    <<"/","/"," ",".","/","d",".","m","d">>,
    <<"p","r","i","s","m","a","/","s">> }

\* the lines that follow the path line
BlockLines == { <<>>, <<" ">>, <<"x">> }

FeedLine(line) ==
  /\ nFinal = 0
  /\ Becomes(processChunk(Handler, line \o <<NL>>))
  /\ fed' = fed \o line \o <<NL>>
  /\ UNCHANGED <<nFinal, nAfter, stale, resetAt>>

OpenBlock == fed = <<>> /\ \E tag \in BlockTags : FeedLine(Fence \o tag)

NamePath == CountLines(fed) = 1 /\ \E l \in BlockPathLines : FeedLine(l)

AddLine ==
  /\ inCodeBlock
  /\ CountLines(fed) >= 2
  /\ CountLines(fed) < 2 + MaxBlockLines
  /\ \E l \in BlockLines : FeedLine(l)

CloseBlock == inCodeBlock /\ CountLines(fed) >= 2 /\ FeedLine(Fence)

FinalizeBlock == nFinal = 0 /\ CountLines(fed) >= 2 /\ FinalizeStep

NextBlock == OpenBlock \/ NamePath \/ AddLine \/ CloseBlock \/ FinalizeBlock

SpecBlock == Init /\ [][NextBlock]_vars

\* the first and the last line of a text
FirstLine(text) == Split(text)[1]

LastLine(text) == Split(text)[Len(Split(text))]

IsBlank(l) == Trim(l) = <<>>

\* the lines of ls after the path line, up to the fence-close line
Body(ls) ==
  With(DropFirst(ls, 2), LAMBDA after :
    IF \E i \in 1..Len(after) : after[i] = Fence
    THEN SubSeq(after, 1, (CHOOSE i \in 1..Len(after) : after[i] = Fence) - 1)
    ELSE after)

BodyLines == Body(ProcessedLines)

\* ls starts with a fence-open line and a path line, and no later line of
\* the fence looks like a path
OneBlock(ls) ==
  /\ Len(ls) >= 2
  /\ codeBlockStart(ls[1]) /\ IsPathLine(ls[2])
  /\ \A i \in 1..Len(Body(ls)) : ~looksLikeFilePath(Body(ls)[i])

\* the block is over: its fence was closed or the run was finalized
BlockOver == Proper /\ (~inCodeBlock \/ nFinal = 1)

\* ls from its first to its last non-blank line
Kernel(ls) ==
  LET a == CHOOSE i \in 1..Len(ls) : ~IsBlank(ls[i]) /\ \A j \in 1..(i-1) : IsBlank(ls[j])
      b == CHOOSE i \in 1..Len(ls) : ~IsBlank(ls[i]) /\ \A j \in (i+1)..Len(ls) : IsBlank(ls[j])
  IN  SubSeq(ls, a, b)

\* C13: trimming: the content of every finalized artifact neither begins
\* nor ends with a blank line; however many blank lines surround the
\* content lines of the fence, the content runs from the first to the last
\* non-blank line
TrimmedContent ==
  /\ \A i \in 1..Len(files) :
       ~IsBlank(FirstLine(files[i].content)) /\ ~IsBlank(LastLine(files[i].content))
  /\ \A i \in EventIndex :
       TypeAt(i) = "file-complete" =>
         ~IsBlank(FirstLine(events[i].data.content)) /\ ~IsBlank(LastLine(events[i].data.content))
  /\ BlockOver =>
       With(ProcessedLines, LAMBDA ls :
         OneBlock(ls) =>
           With(Body(ls), LAMBDA body :
             (\E i \in 1..Len(body) : ~IsBlank(body[i])) =>
               /\ Len(files) >= 1
               /\ files[1].content \o <<NL>> = JoinLines(Kernel(body))))

\* C13 witness: a closed fence whose content lines are preceded by two
\* blank lines and followed by one gave an artifact
TrimmedContentWitness ==
  /\ ~inCodeBlock /\ Len(files) = 1
  /\ BodyLines = << <<>>, <<" ">>, <<"x">>, <<>> >>

\* the path begins with a recognized root or with the relative-path marker
Rooted(p) ==
  \/ StartsWith(p, SrcRoot) \/ StartsWith(p, PublicRoot)
  \/ StartsWith(p, PrismaRoot) \/ StartsWith(p, TestsRoot)
  \/ StartsWith(p, <<".">>)

\* the path the path line stands for: what it names, without surrounding
\* quotes, left alone when rooted and put under src/ otherwise
ExpectedPath(line) ==
  With(Unquoted(extractFilePath(line)[1]), LAMBDA q : IF Rooted(q) THEN q ELSE SrcRoot \o q)

ComponentsFoo == <<"c","o","m","p","o","n","e","n","t","s","/","F","o","o",".","t","s","x">>

TestsFoo == <<"t","e","s","t","s","/","f","o","o",".","t","e","s","t",".","t","s">>

\* C14: path normalization: without its surrounding quotes, a path that
\* begins with src/, public/, prisma/, tests/ or . is kept and any other
\* path p becomes src/p (components/Foo.tsx becomes src/components/Foo.tsx,
\* tests/foo.test.ts is kept); so every path the parser announces or
\* stores begins with one of those roots or with .
PathNormalization ==
  /\ \A i \in 1..Len(files) : Rooted(files[i].path)
  /\ \A i \in EventIndex :
       TypeAt(i) \in {"file-start", "content-chunk", "file-complete"} => Rooted(events[i].data.path)
  /\ currentFile # <<>> => Rooted(currentFile[1].path)
  /\ With(ProcessedLines, LAMBDA ls :
       (Len(ls) >= 2 /\ codeBlockStart(ls[1]) /\ IsPathLine(ls[2])) =>
         /\ Len(events) >= 1
         /\ events[1].type = "file-start"
         /\ events[1].data.path = ExpectedPath(ls[2])
         /\ ls[2] = <<"/","/"," ">> \o ComponentsFoo => events[1].data.path = SrcRoot \o ComponentsFoo
         /\ ls[2] = <<"/","/"," ">> \o TestsFoo => events[1].data.path = TestsFoo
         /\ \A i \in 1..Len(files) : files[i].path = events[1].data.path)

\* C14 witness: the quoted path of a labelled comment was stripped of its
\* quotes and put under src/ in a finished artifact
PathNormalizationWitness ==
  /\ Len(files) = 1
  /\ ProcessedLines[2] = <<"/","*"," ","F","i","l","e",":"," ","'","b",".","t","s","'"," ","*","/">>
  /\ files[1].path = <<"s","r","c","/","b",".","t","s">>

\* the language the claim gives a fence-open tag: text without a tag, the
\* canonical tag of a known alias (in any letter case), the tag otherwise
ExpectedLanguage(tag) ==
  CASE tag = <<>> -> TextLang
    [] ToLower(tag) \in {TypeScript, <<"t","s">>, <<"t","s","x">>} -> TypeScript
    [] ToLower(tag) \in {JavaScript, <<"j","s">>, <<"j","s","x">>} -> JavaScript
    [] ToLower(tag) \in {Markdown, <<"m","d">>} -> Markdown
    [] ToLower(tag) \in {<<"j","s","o","n">>, <<"c","s","s">>, <<"s","c","s","s">>,
                         <<"h","t","m","l">>, <<"p","r","i","s","m","a">>, <<"s","q","l">>}
         -> ToLower(tag)
    [] OTHER -> tag

\* C15: artifact language: the language of every draft and artifact of a
\* fence is derived from the fence-open line only: text without a tag, the
\* canonical tag of a known alias, the tag itself otherwise; and a fence
\* with an unknown tag still yields its artifact
ArtifactLanguage ==
  With(ProcessedLines, LAMBDA ls :
    (Len(ls) >= 2 /\ codeBlockStart(ls[1]) /\ IsPathLine(ls[2])) =>
      /\ \A i \in EventIndex :
           TypeAt(i) \in {"file-start", "file-complete"} =>
             events[i].data.language = ExpectedLanguage(codeBlockTag(ls[1]))
      /\ \A i \in 1..Len(files) : files[i].language = ExpectedLanguage(codeBlockTag(ls[1]))
      /\ (BlockOver /\ OneBlock(ls) /\ \E i \in 1..Len(Body(ls)) : ~IsBlank(Body(ls)[i])) =>
           Len(files) = 1)

(***************************************************************************)
(* The handler with listeners: a caller attaches listeners, feeds chunks,  *)
(* finalizes, and calls reset() at any point.                              *)
(***************************************************************************)
\* the event types the caller listens to (the onDone callback)
ListenerEvents == {"done"}

\* handler.on(type, ...) as in createStreamingHandler: listeners are
\* attached before the first chunk of a run
Attach ==
  \E type \in ListenerEvents \ listeners :
    /\ fed = <<>> /\ nFinal = 0
    /\ Becomes(on(Handler, type))
    /\ stale' = stale \ {type}
    /\ UNCHANGED <<fed, nFinal, nAfter, resetAt>>

ListenedChunk == nFinal = 0 /\ ChunkStep(MaxResetLines)

\* where the handler stands when reset() is called
Situation ==
  (IF buffer # <<>> THEN {"mid-line"} ELSE {})
    \cup (IF currentFile # <<>> THEN {"open-draft"} ELSE {})
    \cup (IF nFinal > 0 THEN {"finalized"} ELSE {})

ResetAnywhere ==
  /\ Becomes(reset(Handler))
  /\ fed' = <<>>
  /\ nFinal' = 0
  /\ nAfter' = 0
  /\ stale' = stale \cup listeners
  /\ resetAt' = resetAt \cup Situation

NextReset == Attach \/ ListenedChunk \/ Finalize \/ ResetAnywhere

SpecReset == Init /\ [][NextReset]_vars

\* C17: reset() called in any state returns every field to its initial
\* value and detaches all listeners: no listener attached before the reset
\* receives an event after it, and the chunks fed after it, once
\* finalized, give the artifacts and the explanation a new handler gives
ResetRestores ==
  /\ reset(Handler) = NewHandler
  /\ stale \cap listeners = {}
  /\ \A i \in EventIndex : heard[i] => TypeAt(i) \notin stale
  /\ OneRun =>
       /\ getFiles(Handler) = parseCompleteResponse(fed).files
       /\ getExplanation(Handler) = parseCompleteResponse(fed).explanation

\* C17 witness: reset() was called mid-line, with an open draft and after
\* finalize; the listener it removed did not receive the done event of the
\* run that followed, which gave an artifact
ResetWitness ==
  /\ resetAt = {"mid-line", "open-draft", "finalized"}
  /\ stale = {"done"}
  /\ OneRun /\ Len(files) = 1
  /\ TypeAt(Len(events)) = "done" /\ ~heard[Len(heard)]

(***************************************************************************)
(* extractFilesFromMarkdown applied to a text written line by line; the    *)
(* last line may lack its line terminator.                                 *)
(***************************************************************************)
MdLines == { Fence, Fence \o <<"t","s">>, <<"/","/","a">>, <<"x">> }

\* the text so far ends with a line terminator
AtLineStart == IF markdown = <<>> THEN TRUE ELSE markdown[Len(markdown)] = NL

WriteLine ==
  \E l \in MdLines :
    /\ extracted = <<>>
    /\ AtLineStart
    /\ CountLines(markdown) < MaxMdLines
    /\ markdown' = markdown \o l \o <<NL>>
    /\ UNCHANGED <<extracted, parserVars, clientVars, quotaVars, streamVars>>

WriteLastLine ==
  \E l \in MdLines :
    /\ extracted = <<>>
    /\ AtLineStart
    /\ CountLines(markdown) < MaxMdLines
    /\ markdown' = markdown \o l
    /\ UNCHANGED <<extracted, parserVars, clientVars, quotaVars, streamVars>>

Extract ==
  /\ extracted = <<>>
  /\ extracted' = <<extractFilesFromMarkdown(markdown)>>
  /\ UNCHANGED <<markdown, parserVars, clientVars, quotaVars, streamVars>>

NextMarkdown == WriteLine \/ WriteLastLine \/ Extract

SpecMarkdown == Init /\ [][NextMarkdown]_vars

RECURSIVE ClosedBlocks(_)
\* the closed fenced blocks of a text read line by line, as the streaming
\* handler reads it: the tag of the fence-open line and the lines up to
\* the fence-close line
ClosedBlocks(ls) ==
  IF ls = <<>> THEN <<>>
  ELSE IF ~codeBlockStart(Head(ls)) THEN ClosedBlocks(Tail(ls))
  ELSE With(Tail(ls), LAMBDA rest :
         IF \A i \in 1..Len(rest) : rest[i] # Fence THEN <<>>
         ELSE With(CHOOSE i \in 1..Len(rest) : rest[i] = Fence /\ \A j \in 1..(i-1) : rest[j] # Fence,
                   LAMBDA c :
                <<[tag |-> codeBlockTag(Head(ls)), body |-> SubSeq(rest, 1, c - 1)]>>
                  \o ClosedBlocks(DropFirst(rest, c))))

\* the first line of the block yields a path
NamesPath(b) ==
  /\ b.body # <<>>
  /\ extractFilePath(Trim(b.body[1])) # <<>>
  /\ extractFilePath(Trim(b.body[1]))[1] # <<>>

\* a placeholder path: unknown-, a number, a dot and the language tag
IsPlaceholder(path, tag) ==
  /\ StartsWith(path, UnknownPrefix)
  /\ EndsWith(path, <<".">> \o (IF tag # <<>> THEN tag ELSE TextLang))
  /\ \E n \in 0..MaxMdLines :
       path = UnknownPrefix \o NumberString(n) \o <<".">> \o (IF tag # <<>> THEN tag ELSE TextLang)

\* res holds one artifact per block of blocks, in order
BlocksKept(res, blocks) ==
  /\ Len(res) = Len(blocks)
  /\ \A i \in 1..Len(blocks) :
       IF NamesPath(blocks[i])
       THEN /\ res[i].path = normalizeFilePath(extractFilePath(Trim(blocks[i].body[1]))[1])
            /\ res[i].content = Trim(Join(Tail(blocks[i].body)))
       ELSE IsPlaceholder(res[i].path, blocks[i].tag)
  /\ \A i, j \in 1..Len(blocks) :
       (i # j /\ ~NamesPath(blocks[i]) /\ ~NamesPath(blocks[j])) => res[i].path # res[j].path

\* C18: extractFilesFromMarkdown drops no block: a text with k closed
\* fenced blocks gives k artifacts in block order, a block whose first line
\* yields a path with that normalized path and the remaining lines as
\* content, a block without a path with a placeholder path made of a
\* counter and the language tag, distinct from the other placeholders
MarkdownBlocksKept ==
  extracted # <<>> => BlocksKept(extracted[1], ClosedBlocks(Split(markdown)))

(***************************************************************************)
(* One ClaudeClient serving one call at a time.                            *)
(***************************************************************************)
Methods == {"generateCode", "chat", "explain", "refactor"}

\* an error of the API with an HTTP status
ApiError(status, long) == [class |-> "APIError", code |-> "", status |-> status, long |-> long]

\* a text response that was tracked and counted
TextResponse == [class |-> "none", code |-> "", status |-> 200, long |-> FALSE]

\* no error: the step succeeded
NoError == [class |-> "none", code |-> "", status |-> 0, long |-> FALSE]

\* the errors of the request and of the reading of its response
Failures ==
  { ApiError(429, FALSE), ApiError(529, FALSE), ApiError(500, FALSE),
    ApiError(401, FALSE), ApiError(400, FALSE), ApiError(400, TRUE),
    [class |-> "Error", code |-> "ECONNRESET", status |-> 0, long |-> FALSE],
    \* a response whose first content block is not text
    [class |-> "AIError", code |-> "INVALID_RESPONSE", status |-> 0, long |-> FALSE] }

\* what the request of one pass can end with
Outcomes == {TextResponse} \cup Failures

\* the errors trackInteraction and incrementUsage rethrow: an error of the
\* database client, or the connection error of its socket
DbFailures ==
  { [class |-> "PrismaClientKnownRequestError", code |-> "P1001", status |-> 0, long |-> FALSE],
    [class |-> "Error", code |-> "ETIMEDOUT", status |-> 0, long |-> FALSE] }

\* what a write to the database can end with
DbOutcomes == {NoError} \cup DbFailures

\* new ClaudeClient(apiKey, model, n)
NewClient ==
  \E n \in 0..MaxRetriesBound :
    /\ clientPc \in {"idle", "returned", "thrown"}
    /\ clientPc' = "idle"
    /\ maxRetries' = n
    /\ retries' = 0
    /\ attempts' = <<>>
    /\ thrown' = "none"
    /\ method' = "none"
    /\ hasQuota' = "unset"
    /\ thrownCode' = "none"
    /\ tracked' = 0
    /\ counted' = 0
    /\ UNCHANGED <<parserVars, mdVars, quotaVars, streamVars>>

\* a call up to its retry loop: the quota check, and for generateCode the
\* context size check, throw before any request; so does the quota lookup
\* itself when it fails (getCurrentUsage: user not found, database error)
Call ==
  \E m \in Methods, lookup \in {"ok", "failed"}, tooLarge \in BOOLEAN :
    \E check \in { IF lookup = "failed" THEN "LOOKUP_FAILED"
                   ELSE IF ~hasRemainingQuota(aiInteractionsUsed, QuotaLimit) THEN "QUOTA_EXCEEDED"
                   ELSE IF tooLarge THEN "CONTEXT_TOO_LARGE"
                   ELSE "ok" } :
      /\ clientPc \in {"idle", "returned", "thrown"}
      /\ tooLarge => m = "generateCode"
      /\ method' = m
      /\ retries' = 0
      /\ attempts' = <<>>
      /\ tracked' = 0
      /\ counted' = 0
      /\ hasQuota' = CASE check = "LOOKUP_FAILED" -> "threw"
                       [] check = "QUOTA_EXCEEDED" -> "false"
                       [] OTHER -> "true"
      /\ clientPc' = IF check = "ok" THEN "request" ELSE "thrown"
      /\ thrown' = CASE check = "ok" -> "none"
                     [] check = "QUOTA_EXCEEDED" -> "AIError"
                     [] check = "CONTEXT_TOO_LARGE" -> "ContextTooLargeError"
                     [] check = "LOOKUP_FAILED" -> "Error"
      /\ thrownCode' = CASE check = "ok" -> "none"
                         [] check = "LOOKUP_FAILED" -> ""
                         [] OTHER -> check
      /\ UNCHANGED <<maxRetries, parserVars, mdVars, quotaVars, streamVars>>

\* one pass of the while loop: the request, then trackInteraction, then
\* incrementUsage, each of which may throw into the catch block
Request ==
  /\ clientPc = "request"
  /\ IF ~withinRetries(retries, maxRetries)
     THEN /\ clientPc' = "thrown"
          /\ thrown' = handleError(attempts[Len(attempts)])
          /\ thrownCode' = codeOf(attempts[Len(attempts)])
          /\ UNCHANGED <<retries, attempts, tracked, counted, aiInteractionsUsed>>
     ELSE \E response \in Outcomes, written \in DbOutcomes, incremented \in DbOutcomes :
          \E r \in { IF response # TextResponse THEN response
                     ELSE IF written # NoError THEN written
                     ELSE IF incremented # NoError THEN incremented
                     ELSE TextResponse } :
            /\ attempts' = Append(attempts, r)
            /\ tracked' = IF response = TextResponse /\ written = NoError THEN tracked + 1 ELSE tracked
            /\ counted' = IF r = TextResponse THEN counted + 1 ELSE counted
            /\ aiInteractionsUsed' =
                 IF r = TextResponse THEN incrementUsage(aiInteractionsUsed) ELSE aiInteractionsUsed
            /\ IF r = TextResponse
               THEN clientPc' = "returned" /\ UNCHANGED <<retries, thrown, thrownCode>>
               ELSE IF isRetryableError(r)
               THEN /\ retries' = retries + 1
                    /\ IF withinRetries(retries + 1, maxRetries)
                       THEN clientPc' = "sleeping" /\ UNCHANGED <<thrown, thrownCode>>
                       ELSE clientPc' = "thrown" /\ thrown' = handleError(r) /\ thrownCode' = codeOf(r)
               ELSE /\ clientPc' = "thrown" /\ thrown' = handleError(r) /\ thrownCode' = codeOf(r)
                    /\ UNCHANGED retries
  /\ UNCHANGED <<maxRetries, method, hasQuota, callPc, parserVars, mdVars, streamVars>>

\* the backoff delay is over
Wake ==
  /\ clientPc = "sleeping"
  /\ clientPc' = "request"
  /\ UNCHANGED <<maxRetries, retries, attempts, thrown, method, hasQuota, thrownCode,
                 tracked, counted, parserVars, mdVars, quotaVars, streamVars>>

NextClient == NewClient \/ Call \/ Request \/ Wake

\* the awaited request settles and the backoff timer fires
SpecClient == Init /\ [][NextClient]_vars /\ WF_vars(Request) /\ WF_vars(Wake)

\* a retryable failure in the words of the claim: a rate limit (429, 529),
\* a status of 500 or more, a network error
RetryableFailure(r) ==
  r # TextResponse /\ (r.status \in {429, 529} \/ r.status >= 500 \/ r.code \in NetworkCodes)

RetryBound ==
  /\ Len(attempts) <= maxRetries + 1
  /\ \A i \in 1..(Len(attempts) - 1) : RetryableFailure(attempts[i])
  /\ (attempts # <<>> /\ ~RetryableFailure(attempts[1])) => Len(attempts) = 1
  /\ maxRetries = 0 => Len(attempts) <= 1
  /\ clientPc = "sleeping" => Len(attempts) <= maxRetries
  /\ clientPc = "returned" => attempts[Len(attempts)] = TextResponse
  /\ (clientPc = "thrown" /\ attempts # <<>>) => attempts[Len(attempts)] # TextResponse

\* every call that was started comes to an end
CallEnds == (clientPc = "request") ~> (clientPc \in {"returned", "thrown"})

\* C19 as stated: bounded retry: a call of a client constructed with
\* maxRetries = N makes at most N + 1 requests, makes another request only
\* after a retryable failure, none after a failure that is not retryable,
\* never a second one when N = 0, and always ends with a result or a thrown
\* AIError
BoundedRetryAIError ==
  [](RetryBound /\ (clientPc = "thrown" => thrown \in AIErrorClasses)) /\ CallEnds

\* an error that is no AIError is the error of the failed quota lookup
LookupErrorOnly ==
  (clientPc = "thrown" /\ thrown \notin AIErrorClasses) => (attempts = <<>> /\ thrown = "Error")

\* C19 amended: the same bound on requests; the call ends with a result or
\* a thrown AIError once the quota lookup succeeded, and with the lookup's
\* own error, before any request, when the lookup fails
BoundedRetry ==
  /\ [](RetryBound /\ LookupErrorOnly)
  /\ CallEnds

\* C19 witness: a call of a client with maxRetries = 2 got its result from
\* the third request, after a rate limit and a network error
BoundedRetryWitness ==
  /\ maxRetries = 2 /\ clientPc = "returned" /\ Len(attempts) = 3
  /\ attempts[1] = ApiError(429, FALSE)
  /\ attempts[2].code = "ECONNRESET"

(***************************************************************************)
(* Concurrent calls for one user within one billing period.                *)
(***************************************************************************)
\* the call awaits hasRemainingQuota and goes on or throws QUOTA_EXCEEDED
CheckQuota(c) ==
  /\ callPc[c] = "idle"
  /\ callPc' = [callPc EXCEPT ![c] =
       IF hasRemainingQuota(aiInteractionsUsed, QuotaLimit) THEN "request" ELSE "refused"]
  /\ UNCHANGED <<aiInteractionsUsed, parserVars, mdVars, clientVars, streamVars>>

\* the awaited messages.create settles: a response, or an error that ends
\* the call
CreateMessage(c) ==
  \E ok \in BOOLEAN :
    /\ callPc[c] = "request"
    /\ callPc' = [callPc EXCEPT ![c] = IF ok THEN "increment" ELSE "thrown"]
    /\ UNCHANGED <<aiInteractionsUsed, parserVars, mdVars, clientVars, streamVars>>

\* the call awaits incrementUsage and returns
CountInteraction(c) ==
  /\ callPc[c] = "increment"
  /\ aiInteractionsUsed' = incrementUsage(aiInteractionsUsed)
  /\ callPc' = [callPc EXCEPT ![c] = "returned"]
  /\ UNCHANGED <<parserVars, mdVars, clientVars, streamVars>>

\* the caller makes its next call
NextCall(c) ==
  /\ callPc[c] \in {"returned", "thrown", "refused"}
  /\ callPc' = [callPc EXCEPT ![c] = "idle"]
  /\ UNCHANGED <<aiInteractionsUsed, parserVars, mdVars, clientVars, streamVars>>

NextQuota ==
  \E c \in Callers : CheckQuota(c) \/ CreateMessage(c) \/ CountInteraction(c) \/ NextCall(c)

SpecQuota == Init /\ [][NextQuota]_vars

\* C20: the quota prevents overages under concurrency: for a user with
\* limit L, under any interleaving of concurrent calls for that user, the
\* aiInteractionsUsed counter never exceeds L within a billing period
QuotaNeverExceeded == aiInteractionsUsed <= QuotaLimit

(***************************************************************************)
(* One fence whose first line is a comment, a path, a file name or plain   *)
(* text, followed by content lines and the fence-close line or finalize.   *)
(***************************************************************************)
\* the first lines of the fence
FirstLines ==
  { <<"/","/"," ","p","l","a","i","n"," ","w","o","r","d","s">>,
    <<"#"," ","n","o","t","e">>,
    <<"/","*"," ","n","o","t","e"," ","*","/">>,
    <<"/","/"," ","l","i","b","/","a">>,
    <<"/","/"," ","F","o","o",".","t","s">>,
    <<"/","*"," ","F","i","l","e",":"," ","a",".","c","s","s"," ","*","/">>,
    <<"l","i","b","/","a">>,
    <<"F","o","o",".","t","s">>,
    <<"a"," ","/"," ","b">>,
    <<"x">> }

OpenFence == fed = <<>> /\ \E tag \in {<<>>, <<"t","s">>} : FeedLine(Fence \o tag)

FirstLineOfFence == CountLines(fed) = 1 /\ \E l \in FirstLines : FeedLine(l)

NextFirstLine == OpenFence \/ FirstLineOfFence \/ AddLine \/ CloseBlock \/ FinalizeBlock

SpecFirstLine == Init /\ [][NextFirstLine]_vars

\* the line without its leading comment marker, the closing marker of a
\* block comment and a File: or Path: label, trimmed
Unmarked(line) ==
  With(Trim(line), LAMBDA t :
    With(Trim(DropFirst(t, MarkerLen(t))), LAMBDA q :
      With(IF StartsWith(t, <<"/","*">>) /\ EndsWith(q, <<"*","/">>) THEN Trim(DropLast(q, 2)) ELSE q,
           LAMBDA r :
        IF StartsWith(ToLower(r), FileLabel) \/ StartsWith(ToLower(r), PathLabel)
        THEN Trim(DropFirst(r, 5)) ELSE r)))

\* the decision of the path heuristic in the words of the claim
PathBearing(line) ==
  With(Unmarked(line), LAMBDA r : Includes(r, "/") \/ HasExtension(r))

\* C21: path heuristic decision: the first line of a fence is consumed as
\* path metadata if and only if, without its comment marker and File: or
\* Path: label, it contains a path separator or ends in a recognized file
\* extension; otherwise it is appended as ordinary content and opens no
\* draft; a bare file name with a recognized extension opens a draft
PathHeuristic ==
  With(ProcessedLines, LAMBDA ls :
    (Len(ls) >= 2 /\ codeBlockStart(ls[1])) =>
      /\ (PathBearing(ls[2]) <=> (events # <<>> /\ TypeAt(1) = "file-start"))
      /\ ~PathBearing(ls[2]) =>
           /\ EventsOfType("file-start") = <<>>
           /\ (Len(ls) = 2 /\ nFinal = 0) =>
                (currentFile = <<>> /\ codeBlockBuffer = ls[2] \o <<NL>>)
      /\ (ls[2] = <<"F","o","o",".","t","s">> /\ Len(ls) = 2 /\ nFinal = 0) => currentFile # <<>>)

(***************************************************************************)
(* One fence with a path line and up to MaxBlockLines content lines, some  *)
(* of them indented or ending in a blank.                                  *)
(***************************************************************************)
ContentLines == { <<>>, <<" ">>, <<"x">>, <<" ","x">>, <<"x"," ">> }

NameFile == CountLines(fed) = 1 /\ FeedLine(<<"/","/"," ","a",".","t","s">>)

AddContent ==
  /\ inCodeBlock
  /\ CountLines(fed) >= 2
  /\ CountLines(fed) < 2 + MaxBlockLines
  /\ \E l \in ContentLines : FeedLine(l)

NextContent == OpenFence \/ NameFile \/ AddContent \/ CloseBlock \/ FinalizeBlock

SpecContent == Init /\ [][NextContent]_vars

\* String.prototype.trimEnd
TrimEnd(str) ==
  With(str, LAMBDA s :
    IF \A i \in 1..Len(s) : IsSpace(s[i]) THEN <<>>
    ELSE LET l == CHOOSE i \in 1..Len(s) : ~IsSpace(s[i]) /\ \A j \in (i+1)..Len(s) : IsSpace(s[j])
         IN  SubSeq(s, 1, l))

\* the lines ls without the indentation of the first and without the
\* trailing blanks of the last
Unpadded(ls) ==
  [i \in 1..Len(ls) |->
     With(IF i = 1 THEN TrimStart(ls[i]) ELSE ls[i], LAMBDA l :
       IF i = Len(ls) THEN TrimEnd(l) ELSE l)]

\* the block is over and had a line that is not blank after its path line
ContentKept(ls) ==
  /\ BlockOver /\ Len(ls) >= 2 /\ codeBlockStart(ls[1]) /\ IsPathLine(ls[2])
  /\ \E i \in 1..Len(Body(ls)) : ~IsBlank(Body(ls)[i])

ChunkGiven == SubSeq(fed', Len(fed) + 1, Len(fed'))

\* the step is a processChunk call whose text holds no line terminator
PartialChunkStep == Len(fed') > Len(fed) /\ ~Includes(ChunkGiven, NL)

\* before finalize the handler is where the terminated lines of the text
\* fed so far, processed one by one, leave a new handler, and the
\* unterminated rest is in the buffer
LinesProcessed ==
  nFinal = 0 =>
    With(Split(fed), LAMBDA pieces :
      Handler = [processLines(NewHandler, DropLast(pieces, 1)) EXCEPT !.buffer = pieces[Len(pieces)]])

\* C23: frame of a partial chunk: a processChunk call whose text contains
\* no newline only appends the text to the carry-over buffer, emits no
\* event and leaves inCodeBlock, the fence language, the block buffer, the
\* draft, the artifact list and the explanation unchanged; and every line a
\* chunk terminates is processed, its events emitted, when the call returns
PartialChunkFrame ==
  /\ []LinesProcessed
  /\ [][PartialChunkStep =>
          /\ buffer' = buffer \o ChunkGiven
          /\ UNCHANGED <<events, inCodeBlock, codeBlockLanguage, codeBlockBuffer,
                         currentFile, files, explanation, dropped>>]_vars

\* C23 witness: inside a fence with an open draft and content, a chunk left
\* the first two characters of the fence-close line in the buffer
PartialChunkWitness ==
  /\ nFinal = 0 /\ buffer = <<BT, BT>>
  /\ inCodeBlock /\ currentFile # <<>> /\ codeBlockBuffer # <<>>
  /\ Len(EventsOfType("content-chunk")) >= 1

(***************************************************************************)
(* The quota gate and the accounting of a call.                            *)
(***************************************************************************)
\* nothing remains of the user's quota
Exhausted == aiInteractionsUsed >= QuotaLimit

\* the step is the start of a call
CallStarts == clientPc \in {"idle", "returned", "thrown"} /\ clientPc' \in {"request", "thrown"}

\* the error the quota check throws: its 429 is the statusCode property,
\* it has no status property
QuotaExceeded == [class |-> "AIError", code |-> "QUOTA_EXCEEDED", status |-> 0, long |-> FALSE]

\* a call whose quota check gave false has thrown QUOTA_EXCEEDED and has
\* made no request, written no record and counted nothing
Refused ==
  hasQuota = "false" =>
    /\ clientPc = "thrown" /\ thrown = "AIError" /\ thrownCode = "QUOTA_EXCEEDED"
    /\ attempts = <<>> /\ tracked = 0 /\ counted = 0
    /\ ~isRetryableError(QuotaExceeded)

\* C24: quota gate: when hasRemainingQuota is false at the start of
\* generateCode, chat, explain or refactor, the call throws the
\* non-retryable AIError QUOTA_EXCEEDED without sending a request, without
\* recording an interaction and without incrementing the usage counter
QuotaGate ==
  /\ [](Refused /\ (Exhausted => clientPc \notin {"request", "sleeping"}))
  /\ [][(CallStarts /\ Exhausted /\ hasQuota' # "threw") =>
          (hasQuota' = "false" /\ aiInteractionsUsed' = aiInteractionsUsed)]_vars

\* C24 witness: with the quota used up by earlier calls, a chat call was
\* refused
QuotaGateWitness ==
  /\ hasQuota = "false" /\ method = "chat" /\ clientPc = "thrown"
  /\ aiInteractionsUsed = QuotaLimit

\* C25: exactly-once accounting: a call that returns a result has written
\* exactly one interaction record and incremented the usage counter exactly
\* once, and a call that throws has incremented the counter zero times,
\* whatever failures of the request, of trackInteraction or of
\* incrementUsage occur inside the retry loop
ExactlyOnceAccounting ==
  /\ clientPc = "returned" => (tracked = 1 /\ counted = 1)
  /\ clientPc = "thrown" => counted = 0

(***************************************************************************)
(* The event sequence of a run.                                            *)
(***************************************************************************)
\* the events of the whole text given as one chunk and finalized
EventsOfText(text) == finalize(processChunk(NewHandler, text)).events

\* the events are in the order of the lines that cause them: the events of
\* every leading part of the text come first
DocumentOrder ==
  With(ProcessedLines, LAMBDA ls :
    \A k \in 0..Len(ls) : IsPrefix(processLines(NewHandler, SubSeq(ls, 1, k)).events, events))

\* C26: event-sequence chunk invariance: the ordered sequence of emitted
\* events, type and payload, is the same for every way of splitting the
\* text into processChunk fragments followed by one finalize, and
\* explanation and file events appear in document order
EventSequenceInvariance ==
  /\ OneRun => events = EventsOfText(fed)
  /\ Proper => DocumentOrder

\* C26 witness: a finished run whose text was a prose line and a fence with
\* a path line and a content line that the text left unterminated
EventSequenceWitness ==
  /\ OneRun
  /\ [i \in 1..Len(events) |-> TypeAt(i)] =
       <<"explanation", "file-start", "content-chunk", "file-complete", "done">>
  /\ buffer # <<>>

RECURSIVE ChunkText(_, _)
\* the chunk payloads of the content-chunk events at positions j to i of the
\* event sequence, concatenated
ChunkText(j, i) ==
  IF j > i THEN <<>>
  ELSE (IF TypeAt(j) = "content-chunk" THEN events[j].data.chunk ELSE <<>>) \o ChunkText(j + 1, i)

\* C27: streamed content matches the final artifact: the content of every
\* file-complete event equals the concatenation, trimmed, of the chunk
\* payloads of the content-chunk events emitted since the most recent
\* file-start; while a draft is open the block content is exactly what was
\* streamed since then, so no line is added without a content-chunk event
\* and no content-chunk is emitted for a line that is not added
StreamedContent ==
  Proper =>
    /\ \A i \in EventIndex :
         TypeAt(i) = "file-complete" =>
           /\ LastStart(i) > 0
           /\ events[i].data.content = Trim(ChunkText(LastStart(i), i))
    /\ \A i \in 1..Len(files) :
         \E k \in EventIndex : TypeAt(k) = "file-complete" /\ events[k].data = files[i]
    /\ (currentFile # <<>> /\ nFinal = 0) =>
         codeBlockBuffer = ChunkText(LastStart(Len(events) + 1), Len(events))

\* C27 witness: a draft was streamed as a blank line and a content line and
\* completed with the content line alone
StreamedContentWitness ==
  /\ OneRun /\ Len(files) = 1 /\ files[1].content = <<"x">>
  /\ [i \in 1..Len(EventsOfType("content-chunk")) |-> EventsOfType("content-chunk")[i].data.chunk]
       = << <<" ", NL>>, <<"x", NL>> >>

\* C28: finalize is idempotent on results: after any sequence of
\* processChunk calls and one finalize, a second finalize() leaves
\* getFiles() and getExplanation() unchanged, also when the input ended
\* with an unterminated prose or content line
FinalizeIdempotent ==
  OneRun =>
    /\ getFiles(finalize(Handler)) = getFiles(Handler)
    /\ getExplanation(finalize(Handler)) = getExplanation(Handler)

(***************************************************************************)
(* The two extraction entry points on one text.                            *)
(***************************************************************************)
\* C29: the two extraction entry points agree on attributed blocks: for a
\* text of prose and closed fenced blocks, each with a path-bearing first
\* line and non-empty content, parseCompleteResponse(text).files and
\* extractFilesFromMarkdown(text) are the same sequence of artifacts
EntryPointsAgree ==
  (extracted # <<>> /\ WellFormed(Split(markdown)).ok) =>
    extracted[1] = parseCompleteResponse(markdown).files

(***************************************************************************)
(* generateCode with streaming: the generator of streamGeneration and the  *)
(* consumer of its chunks.  The handler of the pass under way is the       *)
(* handler of this module, and fed is the fullText of that pass.           *)
(***************************************************************************)
\* the text deltas of a response stream
StreamChunks == { Fence \o <<NL, "/", "/", "a", NL>>, <<"x">> }

\* the errors of the streaming request and of the iteration of its events
StreamFailures ==
  { ApiError(401, FALSE),
    [class |-> "Error", code |-> "ECONNRESET", status |-> 0, long |-> FALSE] }

\* the handler is left in state s, whatever else the step changes
Assigned(s) ==
  \E h \in {s} :
  /\ buffer' = h.buffer
  /\ currentFile' = h.currentFile
  /\ files' = h.files
  /\ explanation' = h.explanation
  /\ inCodeBlock' = h.inCodeBlock
  /\ codeBlockLanguage' = h.codeBlockLanguage
  /\ codeBlockBuffer' = h.codeBlockBuffer
  /\ events' = h.events
  /\ dropped' = h.dropped
  /\ listeners' = h.listeners
  /\ heard' = h.heard

\* the catch block of the retry loop
Caught(error) ==
  \E r \in {error} :
    /\ attempts' = Append(attempts, r)
    /\ IF isRetryableError(r)
       THEN /\ retries' = retries + 1
            /\ IF withinRetries(retries + 1, maxRetries)
               THEN clientPc' = "sleeping" /\ UNCHANGED <<thrown, thrownCode>>
               ELSE clientPc' = "thrown" /\ thrown' = handleError(r) /\ thrownCode' = codeOf(r)
       ELSE /\ clientPc' = "thrown" /\ thrown' = handleError(r) /\ thrownCode' = codeOf(r)
            /\ UNCHANGED retries

\* generateCode({streaming: true}) up to the return of the generator: the
\* quota check and the context size check throw before any request
StreamCall ==
  \E lookup \in {"ok", "failed"}, tooLarge \in BOOLEAN :
    \E check \in { IF lookup = "failed" THEN "LOOKUP_FAILED"
                   ELSE IF ~hasRemainingQuota(aiInteractionsUsed, QuotaLimit) THEN "QUOTA_EXCEEDED"
                   ELSE IF tooLarge THEN "CONTEXT_TOO_LARGE"
                   ELSE "ok" } :
      /\ clientPc \in {"idle", "returned", "thrown"}
      /\ method' = "streamGeneration"
      /\ retries' = 0
      /\ attempts' = <<>>
      /\ tracked' = 0
      /\ counted' = 0
      /\ yielded' = <<>>
      /\ hasQuota' = CASE check = "LOOKUP_FAILED" -> "threw"
                       [] check = "QUOTA_EXCEEDED" -> "false"
                       [] OTHER -> "true"
      /\ clientPc' = IF check = "ok" THEN "request" ELSE "thrown"
      /\ thrown' = CASE check = "ok" -> "none"
                     [] check = "QUOTA_EXCEEDED" -> "AIError"
                     [] check = "CONTEXT_TOO_LARGE" -> "ContextTooLargeError"
                     [] check = "LOOKUP_FAILED" -> "Error"
      /\ thrownCode' = CASE check = "ok" -> "none"
                         [] check = "LOOKUP_FAILED" -> ""
                         [] OTHER -> check
      /\ UNCHANGED <<maxRetries, parserVars, mdVars, quotaVars>>

\* the head of one pass of the while loop: the streaming request, and on
\* its success a new handler and an empty fullText
CreateStream ==
  /\ clientPc = "request"
  /\ method = "streamGeneration"
  /\ IF ~withinRetries(retries, maxRetries)
     THEN /\ clientPc' = "thrown"
          /\ thrown' = handleError(attempts[Len(attempts)])
          /\ thrownCode' = codeOf(attempts[Len(attempts)])
          /\ UNCHANGED <<retries, attempts, parserVars>>
     ELSE \E response \in {TextResponse} \cup StreamFailures :
            IF response = TextResponse
            THEN /\ clientPc' = "streaming"
                 /\ Assigned(NewHandler)
                 /\ fed' = <<>>
                 /\ nFinal' = 0
                 /\ nAfter' = 0
                 /\ UNCHANGED <<retries, attempts, thrown, thrownCode, stale, resetAt>>
            ELSE Caught(response) /\ UNCHANGED parserVars
  /\ UNCHANGED <<maxRetries, method, hasQuota, tracked, counted, mdVars, quotaVars, streamVars>>

\* a content_block_delta event with a text delta: the chunk is added to
\* fullText, given to the handler and yielded to the consumer
StreamEvent ==
  \E chunk \in StreamChunks :
    /\ clientPc = "streaming"
    /\ Len(yielded) < MaxYielded
    /\ fed' = fed \o chunk
    /\ Assigned(processChunk(Handler, chunk))
    /\ yielded' = Append(yielded, chunk)
    /\ UNCHANGED <<nFinal, nAfter, stale, resetAt, mdVars, clientVars, quotaVars>>

\* the iteration of the stream throws
StreamFails ==
  \E error \in StreamFailures :
    /\ clientPc = "streaming"
    /\ Caught(error)
    /\ UNCHANGED <<maxRetries, method, hasQuota, tracked, counted, parserVars, mdVars,
                   quotaVars, streamVars>>

\* the stream is exhausted: finalize, trackInteraction, incrementUsage and
\* the return of the handler's files and explanation
StreamEnds ==
  \E written \in DbOutcomes, incremented \in DbOutcomes :
    \E r \in { IF written # NoError THEN written
               ELSE IF incremented # NoError THEN incremented
               ELSE TextResponse } :
      /\ clientPc = "streaming"
      /\ Assigned(finalize(Handler))
      /\ nFinal' = nFinal + 1
      /\ tracked' = IF written = NoError THEN tracked + 1 ELSE tracked
      /\ counted' = IF r = TextResponse THEN counted + 1 ELSE counted
      /\ aiInteractionsUsed' =
           IF r = TextResponse THEN incrementUsage(aiInteractionsUsed) ELSE aiInteractionsUsed
      /\ IF r = TextResponse
         THEN /\ clientPc' = "returned"
              /\ attempts' = Append(attempts, r)
              /\ UNCHANGED <<retries, thrown, thrownCode>>
         ELSE Caught(r)
      /\ UNCHANGED <<maxRetries, method, hasQuota, fed, nAfter, stale, resetAt, mdVars,
                     callPc, streamVars>>

NextStream == NewClient \/ StreamCall \/ CreateStream \/ StreamEvent \/ StreamFails \/ StreamEnds \/ Wake

SpecStream == Init /\ [][NextStream]_vars

\* the chunks the consumer received, put together
RECURSIVE Concat(_)
Concat(chunks) == IF chunks = <<>> THEN <<>> ELSE Head(chunks) \o Concat(Tail(chunks))

\* C30: when a streamGeneration run returns, the concatenation of the
\* chunks yielded to the consumer is the response text from which the
\* returned files and explanation were parsed, also when a pass failed with
\* a retryable error after some chunks were yielded and a later pass succeeded
StreamConsistent ==
  (clientPc = "returned" /\ method = "streamGeneration") =>
    /\ Concat(yielded) = fed
    /\ getFiles(Handler) = parseCompleteResponse(Concat(yielded)).files

====
